---------------------------- MODULE Spec2Model ----------------------------
(***************************************************************************)
(* Operation ledger and batch distribution engine of grokeddev/backend.    *)
(*                                                                         *)
(* The state is the in-memory record store (server/storage.ts, MemStorage) *)
(* and the position of every HTTP request handler of server/routes.ts that *)
(* is in flight.  A handler is cut at the awaits that wait for the network *)
(* (a gateway call, the inter-recipient timer): MemStorage methods resolve *)
(* without I/O, so the code between two network awaits of one request runs *)
(* inside one turn of the event loop and is one action here.               *)
(*                                                                         *)
(* Amounts are JS numbers in the source; they are modelled as naturals     *)
(* (whole base units) and n.toString() as the decimal digit sequence.      *)
(* Free-text fields (thought, description, label) are left out.            *)
(***************************************************************************)
EXTENDS Integers, Sequences, FiniteSets, TLC

(***************************************************************************)
(* Bounds and input sets                                                   *)
(***************************************************************************)
MaxRecipients == 2      \* longest recipients list of a distribution request
MaxTime == 2            \* the clock stops ticking here
MaxStoreCalls == 2      \* records the storage-level model creates

Requests == {1, 2}                          \* request slots (concurrent requests)
Amounts == {0, 5}                           \* 0 stands for every non-positive amount
Mints == {"M1"}                             \* tokenMint values of requests
\* recipients a distribution request may list
Recipients ==
  {[wallet |-> "A", amount |-> 5], [wallet |-> "B", amount |-> 7],
   [wallet |-> "B", amount |-> 0]}
\* the signature the network gives the i-th transaction of request r, and the
\* message of the exception it throws instead
Signatures == <<<<"s11", "s12", "s13", "s14">>, <<"s21", "s22", "s23", "s24">>>>
Errors == <<<<"e11", "e12", "e13", "e14">>, <<"e21", "e22", "e23", "e24">>>>

None == "none"                              \* undefined / null of a string field

(***************************************************************************)
(* Generic helpers                                                         *)
(***************************************************************************)
Min(a, b) == IF a < b THEN a ELSE b

\* obj.f of a JS object: undefined when the property is absent
Field(rec, f) == IF f \in DOMAIN rec THEN rec[f] ELSE None

\* { ...a, ...b }: every property of b, and the properties of a that b lacks
Spread(a, b) ==
  [f \in (DOMAIN a) \cup (DOMAIN b) |-> IF f \in DOMAIN b THEN b[f] ELSE a[f]]

RECURSIVE SeqsUpTo(_, _)
SeqsUpTo(S, n) ==
  IF n = 0 THEN {<<>>}
  ELSE LET shorter == SeqsUpTo(S, n - 1)
       IN  shorter \cup {Append(s, x) : s \in {t \in shorter : Len(t) = n - 1}, x \in S}

Digits == <<"0", "1", "2", "3", "4", "5", "6", "7", "8", "9">>

\* Number.prototype.toString of a natural: its decimal digits
RECURSIVE NumToString(_)
NumToString(n) ==
  IF n < 10 THEN <<Digits[n + 1]>>
  ELSE NumToString(n \div 10) \o <<Digits[(n % 10) + 1]>>

DigitValue(c) == (CHOOSE i \in 1..10 : Digits[i] = c) - 1

\* parseFloat of a digit string
RECURSIVE ParseNum(_)
ParseNum(s) ==
  IF Len(s) = 0 THEN 0
  ELSE 10 * ParseNum(SubSeq(s, 1, Len(s) - 1)) + DigitValue(s[Len(s)])

(***************************************************************************)
(* Map<string, T>: the entries in insertion order, each a key and a value  *)
(***************************************************************************)
MapKeys(m) == {m[i].k : i \in 1..Len(m)}
MapHas(m, key) == key \in MapKeys(m)
MapIndex(m, key) == CHOOSE i \in 1..Len(m) : m[i].k = key
MapGet(m, key) == m[MapIndex(m, key)].v
\* Map.set: a new key is appended, a present key keeps its place
MapSet(m, key, val) ==
  IF MapHas(m, key)
  THEN [m EXCEPT ![MapIndex(m, key)] = [k |-> key, v |-> val]]
  ELSE Append(m, [k |-> key, v |-> val])
\* Array.from(map.values())
MapValues(m) == [i \in 1..Len(m) |-> m[i].v]

\* Array.prototype.slice(from, to), zero-based, to exclusive
Slice(s, from, to) == SubSeq(s, from + 1, Min(to, Len(s)))

\* one step of a stable sort with comparator b.createdAt - a.createdAt
InsertNewestFirst(sorted, x) ==
  LET n == Cardinality({i \in 1..Len(sorted) : sorted[i].createdAt >= x.createdAt})
  IN  SubSeq(sorted, 1, n) \o <<x>> \o SubSeq(sorted, n + 1, Len(sorted))

RECURSIVE SortPrefix(_, _)
SortPrefix(s, n) ==
  IF n = 0 THEN <<>> ELSE InsertNewestFirst(SortPrefix(s, n - 1), s[n])

\* the array as Array.from gave it, the sort left out
SortSkipped(s) == s

\* arr.sort((a, b) => b.createdAt.getTime() - a.createdAt.getTime())
SortNewestFirst(s) == SortPrefix(s, Len(s))

(***************************************************************************)
(* State                                                                   *)
(***************************************************************************)
VARIABLES
  wallets,          \* MemStorage.wallets
  tokens,           \* MemStorage.tokens
  treasuryState,    \* MemStorage.treasuryState: <<>> while undefined, else <<the row>>
  holderSnapshots,  \* MemStorage.holderSnapshots
  activityLogs,     \* MemStorage.activityLogs
  airdrops,         \* MemStorage.airdrops
  creatorRewards,   \* MemStorage.creatorRewards
  burnRecords,      \* MemStorage.burnRecords
  buybackRecords,   \* MemStorage.buybackRecords
  now,              \* the value new Date() returns
  reqs              \* per request slot: the handler's locals and its position

tables == <<wallets, tokens, treasuryState, holderSnapshots, activityLogs, airdrops,
            creatorRewards, burnRecords, buybackRecords>>
vars == <<wallets, tokens, treasuryState, holderSnapshots, activityLogs, airdrops,
          creatorRewards, burnRecords, buybackRecords, now, reqs>>

\* randomUUID(): an id no stored record has; ids are numbered in creation order
RecordCount ==
  Len(wallets) + Len(tokens) + Len(treasuryState) + Len(holderSnapshots)
    + Len(activityLogs) + Len(airdrops) + Len(creatorRewards) + Len(burnRecords)
    + Len(buybackRecords)
randomUUID == RecordCount + 1

(***************************************************************************)
(* MemStorage (server/storage.ts).  A method is an operator from the Map   *)
(* it works on to the Map after the call; createdAt and the other nullable *)
(* timestamps are naturals, 0 standing for null.                           *)
(***************************************************************************)
createWallet(m, insertWallet, id, at) ==
  MapSet(m, id, Spread(insertWallet, [id |-> id, createdAt |-> at]))

\* the first wallet inserted, whatever its type
getFirstWallet(m) == IF m = <<>> THEN <<>> ELSE <<m[1].v>>

\* a lookup that prefers the treasury wallet stored last
getLatestTreasuryWallet(m) ==
  LET hits == SelectSeq(MapValues(m), LAMBDA w : w.type = "treasury")
  IN  IF hits = <<>> THEN <<>> ELSE <<hits[Len(hits)]>>

\* Array.from(values).find(w => w.type === "treasury"): the first one inserted
getTreasuryWallet(m) ==
  LET hits == SelectSeq(MapValues(m), LAMBDA w : w.type = "treasury")
  IN  IF hits = <<>> THEN <<>> ELSE <<hits[1]>>

createToken(m, insertToken, id, at) ==
  MapSet(m, id, Spread(insertToken, [id |-> id, createdAt |-> at]))

updateToken(m, id, updates) ==
  IF ~MapHas(m, id) THEN m ELSE MapSet(m, id, Spread(MapGet(m, id), updates))

\* Array.from(values).find(t => t.status === "active")
getActiveToken(m) ==
  LET hits == SelectSeq(MapValues(m), LAMBDA t : t.status = "active")
  IN  IF hits = <<>> THEN <<>> ELSE <<hits[1]>>

\* the row is made on first use, then { ...row, ...updates, lastUpdated: new Date() }
updateTreasuryState(ts, updates, id, at) ==
  LET row == IF ts = <<>>
             THEN [id |-> id, solBalance |-> "0", tokenBalance |-> "0",
                   tokenMint |-> None, lastUpdated |-> at]
             ELSE ts[1]
  IN  <<Spread(Spread(row, updates), [lastUpdated |-> at])>>

\* a create that keeps one snapshot per token: an older one of the mint is replaced
createHolderSnapshotLatest(m, insertSnapshot, id, at) ==
  LET row == [k |-> id, v |-> Spread(insertSnapshot, [id |-> id, createdAt |-> at])]
      older == {i \in 1..Len(m) : m[i].v.tokenMint = insertSnapshot.tokenMint}
  IN  IF older = {} THEN Append(m, row)
      ELSE [m EXCEPT ![CHOOSE i \in older : TRUE] = row]

createHolderSnapshot(m, insertSnapshot, id, at) ==
  MapSet(m, id, Spread(insertSnapshot, [id |-> id, createdAt |-> at]))

createActivityLog(m, insertLog, id, at) ==
  MapSet(m, id, Spread(insertLog, [id |-> id, createdAt |-> at]))

updateActivityLog(m, id, updates) ==
  IF ~MapHas(m, id) THEN m ELSE MapSet(m, id, Spread(MapGet(m, id), updates))

createAirdrop(m, insertAirdrop, id, at) ==
  MapSet(m, id, Spread(insertAirdrop, [id |-> id, createdAt |-> at, completedAt |-> 0]))

\* an update that lands on the oldest stored record, whatever the id
updateAirdropOldest(m, id, updates) ==
  IF m = <<>> THEN m ELSE [m EXCEPT ![1] = [k |-> m[1].k, v |-> Spread(m[1].v, updates)]]

updateAirdrop(m, id, updates) ==
  IF ~MapHas(m, id) THEN m ELSE MapSet(m, id, Spread(MapGet(m, id), updates))

createCreatorReward(m, insertReward, id, at) ==
  MapSet(m, id, Spread(insertReward, [id |-> id, createdAt |-> at, claimedAt |-> 0]))

\* an update that stores the updates under the id when no record is held there
updateCreatorRewardUpsert(m, id, updates) ==
  IF ~MapHas(m, id) THEN MapSet(m, id, updates)
  ELSE MapSet(m, id, Spread(MapGet(m, id), updates))

updateCreatorReward(m, id, updates) ==
  IF ~MapHas(m, id) THEN m ELSE MapSet(m, id, Spread(MapGet(m, id), updates))

createBurnRecord(m, insertRecord, id, at) ==
  MapSet(m, id, Spread(insertRecord, [id |-> id, createdAt |-> at]))

\* an update that is applied to every stored record, whatever the id
updateBurnRecordEvery(m, id, updates) ==
  [i \in 1..Len(m) |-> [k |-> m[i].k, v |-> Spread(m[i].v, updates)]]

updateBurnRecord(m, id, updates) ==
  IF ~MapHas(m, id) THEN m ELSE MapSet(m, id, Spread(MapGet(m, id), updates))

createBuybackRecord(m, insertRecord, id, at) ==
  MapSet(m, id, Spread(insertRecord, [id |-> id, createdAt |-> at]))

updateBuybackRecord(m, id, updates) ==
  IF ~MapHas(m, id) THEN m ELSE MapSet(m, id, Spread(MapGet(m, id), updates))

(***************************************************************************)
(* The read methods.  Each is an operator from the Map to the Map after    *)
(* the call and the value returned: Array.from copies the values, so the   *)
(* sort works on the copy.  A get returns the record in a sequence, or the *)
(* empty sequence for undefined; a tokenMint or type of None is no filter. *)
(***************************************************************************)
AirdropsDefaultLimit == 50
ActivityLogsDefaultLimit == 100
ActivityLogsByTypeDefaultLimit == 50
SnapshotHistoryDefaultLimit == 50

Lookup(m, id) == IF MapHas(m, id) THEN <<MapGet(m, id)>> ELSE <<>>

getHolderSnapshot(m, id) == [map |-> m, result |-> Lookup(m, id)]

getSnapshotHistory(m, tokenMint, limit) ==
  LET all == SelectSeq(MapValues(m), LAMBDA x : x.tokenMint = tokenMint)
  IN  [map |-> m, result |-> Slice(SortNewestFirst(all), 0, limit)]

getActivityLog(m, id) == [map |-> m, result |-> Lookup(m, id)]

\* a listing with a page size capped at one entry
getActivityLogsCapped(m, limit, offset) ==
  [map |-> m,
   result |-> Slice(SortNewestFirst(MapValues(m)), offset, offset + Min(limit, 1))]

getActivityLogs(m, limit, offset) ==
  [map |-> m, result |-> Slice(SortNewestFirst(MapValues(m)), offset, offset + limit)]

getActivityLogsByType(m, type, limit) ==
  LET all == SelectSeq(MapValues(m), LAMBDA l : l.type = type)
  IN  [map |-> m, result |-> Slice(SortNewestFirst(all), 0, limit)]

getAirdrop(m, id) == [map |-> m, result |-> Lookup(m, id)]

\* a getAirdrops that sorts the Map's own entries instead of a copy of its values
getAirdropsInPlace(m, limit) ==
  LET sorted == SortNewestFirst(MapValues(m))
  IN  [map |-> [i \in 1..Len(sorted) |-> [k |-> sorted[i].id, v |-> sorted[i]]],
       result |-> Slice(sorted, 0, limit)]

getAirdrops(m, limit) ==
  [map |-> m, result |-> Slice(SortNewestFirst(MapValues(m)), 0, limit)]

getCreatorReward(m, id) == [map |-> m, result |-> Lookup(m, id)]

getCreatorRewards(m, tokenMint) ==
  LET rewards == IF tokenMint # None
                 THEN SelectSeq(MapValues(m), LAMBDA x : x.tokenMint = tokenMint)
                 ELSE MapValues(m)
  IN  [map |-> m, result |-> SortNewestFirst(rewards)]

getBurnRecord(m, id) == [map |-> m, result |-> Lookup(m, id)]

getBurnRecords(m, tokenMint) ==
  LET records == IF tokenMint # None
                 THEN SelectSeq(MapValues(m), LAMBDA x : x.tokenMint = tokenMint)
                 ELSE MapValues(m)
  IN  [map |-> m, result |-> SortNewestFirst(records)]

getBuybackRecord(m, id) == [map |-> m, result |-> Lookup(m, id)]

getBuybackRecords(m, tokenMint) ==
  LET records == IF tokenMint # None
                 THEN SelectSeq(MapValues(m), LAMBDA x : x.tokenMint = tokenMint)
                 ELSE MapValues(m)
  IN  [map |-> m, result |-> SortNewestFirst(records)]

(***************************************************************************)
(* Remote gateway (server/services/solana.ts, pumpportal.ts).  `net` is    *)
(* what the network does with the submitted transaction: it confirms it    *)
(* with a signature, or an exception with a message is thrown.  A call     *)
(* that never returns is a return action that is never taken.              *)
(***************************************************************************)
Network(r, i, ok) ==
  IF ok THEN [ok |-> TRUE, signature |-> Signatures[r][i], message |-> None]
  ELSE [ok |-> FALSE, signature |-> None, message |-> Errors[r][i]]

\* try { ...; return { success: true, txSignature } } catch (error) { return { success: false, error: error.message } }
transferSol(net) ==
  IF net.ok THEN [success |-> TRUE, txSignature |-> net.signature, error |-> None]
  ELSE [success |-> FALSE, txSignature |-> None, error |-> net.message]

\* a transferToken whose catch block drops error.message
transferTokenSilent(net) ==
  IF net.ok THEN [success |-> TRUE, txSignature |-> net.signature, error |-> None]
  ELSE [success |-> FALSE, txSignature |-> None, error |-> None]

transferToken(net) ==
  IF net.ok THEN [success |-> TRUE, txSignature |-> net.signature, error |-> None]
  ELSE [success |-> FALSE, txSignature |-> None, error |-> net.message]

\* a burnTokens that reports success without the signature
burnTokensUnsigned(net) ==
  IF net.ok THEN [success |-> TRUE, txSignature |-> None, error |-> None]
  ELSE [success |-> FALSE, txSignature |-> None, error |-> net.message]

burnTokens(net) ==
  IF net.ok THEN [success |-> TRUE, txSignature |-> net.signature, error |-> None]
  ELSE [success |-> FALSE, txSignature |-> None, error |-> net.message]

buyToken(net) ==
  IF net.ok THEN [success |-> TRUE, txSignature |-> net.signature, error |-> None]
  ELSE [success |-> FALSE, txSignature |-> None, error |-> net.message]

claimCreatorRewards(net) ==
  IF net.ok THEN [success |-> TRUE, txSignature |-> net.signature, error |-> None]
  ELSE [success |-> FALSE, txSignature |-> None, error |-> net.message]

\* the mint address Keypair.generate() gives the token request r deploys
DeployedMints == <<"D1", "D2">>

\* PumpPortalService.deployToken: { success: true, mint, signature } or
\* { success: false, error: error.message }
deployToken(net, r) ==
  IF net.ok
  THEN [success |-> TRUE, mint |-> DeployedMints[r], signature |-> net.signature,
        error |-> None]
  ELSE [success |-> FALSE, mint |-> None, signature |-> None, error |-> net.message]

(***************************************************************************)
(* Request validation (shared/schema.ts)                                   *)
(***************************************************************************)
\* the airdrop schema without .min(1) and .positive()
airdropRequestSchemaLoose(body) == body.type \in {"token", "sol"}

\* z.object({ type: z.enum(["token", "sol"]), tokenMint: z.string().optional(),
\*   recipients: z.array(z.object({ wallet, amount: z.number().positive() })).min(1),
\*   useSnapshot: z.boolean().optional(), snapshotId: z.string().optional() })
airdropRequestSchema(body) ==
  /\ body.type \in {"token", "sol"}
  /\ Len(body.recipients) >= 1
  /\ \A i \in 1..Len(body.recipients) : body.recipients[i].amount > 0

\* z.object({ tokenMint: z.string(), amount: z.number().positive(), reason })
burnRequestSchema(body) ==
  /\ body.tokenMint # None
  /\ body.amount > 0

\* z.object({ tokenMint: z.string(), solAmount: z.number().positive(), reason })
buybackRequestSchema(body) ==
  /\ body.tokenMint # None
  /\ body.solAmount > 0

\* z.object({ tokenMint: z.string() })
claimRewardsRequestSchema(body) == body.tokenMint # None

\* z.object({ name: z.string().min(1).max(32), symbol: z.string().min(1).max(10), ... })
deployTokenRequestSchema(body) == body.name # "" /\ body.symbol # ""

(***************************************************************************)
(* Request slots                                                           *)
(***************************************************************************)
NoBody == [empty |-> TRUE]
NoResponse == [status |-> 0]
IdleSlot ==
  [kind |-> "idle", pc |-> "idle", body |-> NoBody, recId |-> 0, logId |-> 0,
   results |-> <<>>, attempts |-> 0, pendingAmount |-> 0, resp |-> NoResponse]

\* a request lands in the lowest free slot
FreeSlot(r) ==
  /\ reqs[r].pc = "idle"
  /\ \A q \in Requests : q < r => reqs[q].pc # "idle"

\* res.status(code).json(payload): the handler is over
Respond(slot, payload) == [slot EXCEPT !.pc = "done", !.resp = payload]

(***************************************************************************)
(* POST /api/airdrop (server/routes.ts)                                    *)
(***************************************************************************)
RecipientLists == SeqsUpTo(Recipients, MaxRecipients)

\* the snapshot a request may name: none, or a stored one
SnapshotChoices ==
  {[useSnapshot |-> FALSE, snapshotId |-> 0]}
    \cup {[useSnapshot |-> TRUE, snapshotId |-> id] : id \in MapKeys(holderSnapshots)}

\* type and tokenMint of a request
AirdropAssets == [type : {"sol", "token"}, tokenMint : Mints \cup {None}]

AirdropBody(asset, recipients, sn) ==
  [type |-> asset.type, tokenMint |-> asset.tokenMint, recipients |-> recipients,
   useSnapshot |-> sn.useSnapshot, snapshotId |-> sn.snapshotId]

\* a reduce that keeps the last amount instead of adding it: (sum, r) => r.amount
TotalAmountOfLast(recipients) ==
  IF recipients = <<>> THEN 0 ELSE recipients[Len(recipients)].amount

\* recipients.reduce((sum, r) => sum + r.amount, 0)
RECURSIVE TotalAmount(_)
TotalAmount(recipients) ==
  IF recipients = <<>> THEN 0
  ELSE TotalAmount(SubSeq(recipients, 1, Len(recipients) - 1))
         + recipients[Len(recipients)].amount

\* a createAirdrop argument that opens the record `pending`
NewAirdropPending(body) ==
  [type |-> body.type, tokenMint |-> body.tokenMint,
   totalAmount |-> NumToString(TotalAmount(body.recipients)),
   recipientCount |-> Len(body.recipients), distributionData |-> <<>>,
   snapshotId |-> body.snapshotId, status |-> "pending"]

\* the argument of storage.createAirdrop
NewAirdrop(body) ==
  [type |-> body.type, tokenMint |-> body.tokenMint,
   totalAmount |-> NumToString(TotalAmount(body.recipients)),
   recipientCount |-> Len(body.recipients), distributionData |-> <<>>,
   snapshotId |-> body.snapshotId, status |-> "processing"]

\* the argument of storage.createActivityLog
NewAirdropLog(body) ==
  [type |-> "airdrop",
   action |-> IF body.type = "sol" THEN "airdrop_sol" ELSE "airdrop_token",
   amount |-> NumToString(TotalAmount(body.recipients)),
   tokenMint |-> body.tokenMint, status |-> "pending"]

\* results.filter(r => r.result.success).length
SuccessCount(results) ==
  Cardinality({i \in 1..Len(results) : results[i].result.success})

\* outcomes listed with the successful transfers first
DistributionDataSuccessFirst(results, recipients) ==
  LET all == [i \in 1..Len(results) |->
               [wallet |-> results[i].wallet, amount |-> recipients[i].amount,
                txSignature |-> results[i].result.txSignature,
                success |-> results[i].result.success, error |-> results[i].result.error]]
  IN  SelectSeq(all, LAMBDA o : o.success) \o SelectSeq(all, LAMBDA o : ~o.success)

\* results.map((r, i) => ({ wallet: r.wallet, amount: recipients[i].amount, ... }))
DistributionData(results, recipients) ==
  [i \in 1..Len(results) |->
    [wallet |-> results[i].wallet, amount |-> recipients[i].amount,
     txSignature |-> results[i].result.txSignature,
     success |-> results[i].result.success, error |-> results[i].result.error]]

\* successCount === results.length ? "completed" : "partial"
AirdropStatus(successCount, total) ==
  IF successCount = total THEN "completed" ELSE "partial"

\* a log status that does not look at the results
AirdropLogStatusFixed(successCount) == "success"

\* successCount > 0 ? "success" : "failed"
AirdropLogStatus(successCount) ==
  IF successCount > 0 THEN "success" ELSE "failed"

\* the handler after the batch has returned: close the record and the log, respond
AirdropClose(r, slot, airdropMap, logMap) ==
  LET results == slot.results
      successCount == SuccessCount(results)
      distributionData == DistributionData(results, slot.body.recipients)
  IN  /\ airdrops' = updateAirdrop(airdropMap, slot.recId,
           [distributionData |-> distributionData,
            status |-> AirdropStatus(successCount, Len(results)),
            completedAt |-> now])
      /\ activityLogs' = updateActivityLog(logMap, slot.logId,
           [status |-> AirdropLogStatus(successCount),
            metadata |-> [successCount |-> successCount,
                          failCount |-> Len(results) - successCount]])
      /\ reqs' = [reqs EXCEPT ![r] = Respond(slot,
           [status |-> 200, id |-> slot.recId, successCount |-> successCount,
            failCount |-> Len(results) - successCount,
            distributions |-> distributionData])]

\* the handler from the request to its first network await
AirdropRequest(r, body) ==
  /\ FreeSlot(r)
  /\ LET slot == [IdleSlot EXCEPT !.kind = "airdrop", !.body = body]
         airdropId == randomUUID
         logId == randomUUID + 1
         airdropMap == createAirdrop(airdrops, NewAirdrop(body), airdropId, now)
         logMap == createActivityLog(activityLogs, NewAirdropLog(body), logId, now)
         opened == [slot EXCEPT !.recId = airdropId, !.logId = logId]
     IN  IF ~airdropRequestSchema(body)
         THEN /\ reqs' = [reqs EXCEPT ![r] = Respond(slot, [status |-> 400, error |-> "validation"])]
              /\ UNCHANGED <<airdrops, activityLogs>>
         ELSE IF getTreasuryWallet(wallets) = <<>>
         THEN /\ reqs' = [reqs EXCEPT ![r] =
                   Respond(slot, [status |-> 400, error |-> "Treasury wallet not configured"])]
              /\ UNCHANGED <<airdrops, activityLogs>>
         ELSE IF body.type # "sol" /\ body.tokenMint = None
         THEN /\ airdrops' = airdropMap
              /\ activityLogs' = logMap
              /\ reqs' = [reqs EXCEPT ![r] =
                   Respond(opened, [status |-> 400, error |-> "Token mint required for token airdrop"])]
         ELSE IF body.recipients = <<>>
         THEN AirdropClose(r, opened, airdropMap, logMap)
         ELSE /\ airdrops' = airdropMap
              /\ activityLogs' = logMap
              /\ reqs' = [reqs EXCEPT ![r] = [opened EXCEPT !.pc = "transfer", !.attempts = 1]]
  /\ UNCHANGED <<tokens, treasuryState, wallets, holderSnapshots, creatorRewards,
                 burnRecords, buybackRecords,
                 now>>

\* batchAirdropSol / batchAirdropTokens: the transfer in flight returns and its
\* result is pushed; the loop then waits for its 100 ms timer
TransferReturn(r, ok) ==
  /\ reqs[r].kind = "airdrop" /\ reqs[r].pc = "transfer"
  /\ LET slot == reqs[r]
         net == Network(r, slot.attempts, ok)
         recipient == slot.body.recipients[Len(slot.results) + 1]
         result == IF slot.body.type = "sol" THEN transferSol(net) ELSE transferToken(net)
     IN  reqs' = [reqs EXCEPT ![r] =
           [slot EXCEPT !.pc = "delay",
                        !.results = Append(@, [wallet |-> recipient.wallet, result |-> result])]]
  /\ UNCHANGED <<tables, now>>

\* a loop that breaks at the first failed transfer
DelayElapsedAborting(r) ==
  /\ reqs[r].kind = "airdrop" /\ reqs[r].pc = "delay"
  /\ LET slot == reqs[r]
     IN  IF /\ Len(slot.results) < Len(slot.body.recipients)
            /\ slot.results[Len(slot.results)].result.success
         THEN /\ reqs' = [reqs EXCEPT ![r] =
                   [slot EXCEPT !.pc = "transfer", !.attempts = @ + 1]]
              /\ UNCHANGED <<airdrops, activityLogs>>
         ELSE AirdropClose(r, slot, airdrops, activityLogs)
  /\ UNCHANGED <<tokens, treasuryState, wallets, holderSnapshots, creatorRewards,
                 burnRecords, buybackRecords,
                 now>>

\* a loop that submits the next two transfers together
DelayElapsedPipelined(r) ==
  /\ reqs[r].kind = "airdrop" /\ reqs[r].pc = "delay"
  /\ LET slot == reqs[r]
     IN  IF Len(slot.results) < Len(slot.body.recipients)
         THEN /\ reqs' = [reqs EXCEPT ![r] =
                   [slot EXCEPT !.pc = "transfer", !.attempts = @ + 2]]
              /\ UNCHANGED <<airdrops, activityLogs>>
         ELSE AirdropClose(r, slot, airdrops, activityLogs)
  /\ UNCHANGED <<tokens, treasuryState, wallets, holderSnapshots, creatorRewards,
                 burnRecords, buybackRecords, now>>

\* the timer fires: the next transfer is submitted, or the batch returns and the
\* handler runs to its response
DelayElapsed(r) ==
  /\ reqs[r].kind = "airdrop" /\ reqs[r].pc = "delay"
  /\ LET slot == reqs[r]
     IN  IF Len(slot.results) < Len(slot.body.recipients)
         THEN /\ reqs' = [reqs EXCEPT ![r] =
                   [slot EXCEPT !.pc = "transfer", !.attempts = @ + 1]]
              /\ UNCHANGED <<airdrops, activityLogs>>
         ELSE AirdropClose(r, slot, airdrops, activityLogs)
  /\ UNCHANGED <<tokens, treasuryState, wallets, holderSnapshots, creatorRewards,
                 burnRecords, buybackRecords,
                 now>>

(***************************************************************************)
(* POST /api/burn                                                          *)
(***************************************************************************)
BurnBodies == [tokenMint : Mints \cup {None}, amount : Amounts]

BurnRequest(r, body) ==
  /\ FreeSlot(r)
  /\ LET slot == [IdleSlot EXCEPT !.kind = "burn", !.body = body]
         burnId == randomUUID
         logId == randomUUID + 1
     IN  IF ~burnRequestSchema(body)
         THEN /\ reqs' = [reqs EXCEPT ![r] = Respond(slot, [status |-> 400, error |-> "validation"])]
              /\ UNCHANGED <<burnRecords, activityLogs>>
         ELSE IF getTreasuryWallet(wallets) = <<>>
         THEN /\ reqs' = [reqs EXCEPT ![r] =
                   Respond(slot, [status |-> 400, error |-> "Treasury wallet not configured"])]
              /\ UNCHANGED <<burnRecords, activityLogs>>
         ELSE /\ burnRecords' = createBurnRecord(burnRecords,
                   [tokenMint |-> body.tokenMint, amount |-> NumToString(body.amount),
                    status |-> "pending"], burnId, now)
              /\ activityLogs' = createActivityLog(activityLogs,
                   [type |-> "burn", action |-> "burn_tokens",
                    amount |-> NumToString(body.amount), tokenMint |-> body.tokenMint,
                    status |-> "pending"], logId, now)
              /\ reqs' = [reqs EXCEPT ![r] =
                   [slot EXCEPT !.pc = "burn", !.recId = burnId, !.logId = logId,
                                !.attempts = 1]]
  /\ UNCHANGED <<tokens, treasuryState, wallets, holderSnapshots, airdrops,
                 creatorRewards, buybackRecords,
                 now>>

\* result.success ? "success" : "failed"
OperationStatus(result) == IF result.success THEN "success" ELSE "failed"

\* the response of burn, buyback and claim; `echo` is the amount field it repeats
\* a response that reports success whatever the gateway returned
OperationResponseOk(result, echo) ==
  [status |-> 200, success |-> TRUE, txSignature |-> result.txSignature, amount |-> echo]

OperationResponse(result, echo) ==
  IF result.success
  THEN [status |-> 200, success |-> TRUE, txSignature |-> result.txSignature,
        amount |-> echo]
  ELSE [status |-> 500, error |-> result.error]

\* a burn handler that also writes the burnt mint into the treasury state
BurnReturnRefreshing(r, ok) ==
  /\ reqs[r].kind = "burn" /\ reqs[r].pc = "burn"
  /\ LET slot == reqs[r]
         net == Network(r, slot.attempts, ok)
         result == burnTokens(net)
     IN  /\ burnRecords' = updateBurnRecord(burnRecords, slot.recId,
              [status |-> OperationStatus(result), txSignature |-> result.txSignature])
         /\ activityLogs' = updateActivityLog(activityLogs, slot.logId,
              [status |-> OperationStatus(result), txSignature |-> result.txSignature])
         /\ treasuryState' = updateTreasuryState(treasuryState,
              [tokenMint |-> slot.body.tokenMint], randomUUID, now)
         /\ reqs' = [reqs EXCEPT ![r] =
              Respond([slot EXCEPT !.results = <<result>>],
                      OperationResponse(result, NumToString(slot.body.amount)))]
  /\ UNCHANGED <<tokens, wallets, holderSnapshots, airdrops, creatorRewards,
                 buybackRecords, now>>

BurnReturn(r, ok) ==
  /\ reqs[r].kind = "burn" /\ reqs[r].pc = "burn"
  /\ LET slot == reqs[r]
         net == Network(r, slot.attempts, ok)
         result == burnTokens(net)
     IN  /\ burnRecords' = updateBurnRecord(burnRecords, slot.recId,
              [status |-> OperationStatus(result), txSignature |-> result.txSignature])
         /\ activityLogs' = updateActivityLog(activityLogs, slot.logId,
              [status |-> OperationStatus(result), txSignature |-> result.txSignature])
         /\ reqs' = [reqs EXCEPT ![r] =
              Respond([slot EXCEPT !.results = <<result>>],
                      OperationResponse(result, NumToString(slot.body.amount)))]
  /\ UNCHANGED <<tokens, treasuryState, wallets, holderSnapshots, airdrops,
                 creatorRewards, buybackRecords,
                 now>>

(***************************************************************************)
(* POST /api/buyback                                                       *)
(***************************************************************************)
BuybackBodies == [tokenMint : Mints \cup {None}, solAmount : Amounts]

BuybackRequest(r, body) ==
  /\ FreeSlot(r)
  /\ LET slot == [IdleSlot EXCEPT !.kind = "buyback", !.body = body]
         buybackId == randomUUID
         logId == randomUUID + 1
     IN  IF ~buybackRequestSchema(body)
         THEN /\ reqs' = [reqs EXCEPT ![r] = Respond(slot, [status |-> 400, error |-> "validation"])]
              /\ UNCHANGED <<buybackRecords, activityLogs>>
         ELSE IF getTreasuryWallet(wallets) = <<>>
         THEN /\ reqs' = [reqs EXCEPT ![r] =
                   Respond(slot, [status |-> 400, error |-> "Treasury wallet not configured"])]
              /\ UNCHANGED <<buybackRecords, activityLogs>>
         ELSE /\ buybackRecords' = createBuybackRecord(buybackRecords,
                   [tokenMint |-> body.tokenMint, solSpent |-> NumToString(body.solAmount),
                    status |-> "pending"], buybackId, now)
              /\ activityLogs' = createActivityLog(activityLogs,
                   [type |-> "buyback", action |-> "buyback_tokens",
                    amount |-> NumToString(body.solAmount), tokenMint |-> body.tokenMint,
                    status |-> "pending"], logId, now)
              /\ reqs' = [reqs EXCEPT ![r] =
                   [slot EXCEPT !.pc = "buy", !.recId = buybackId, !.logId = logId,
                                !.attempts = 1]]
  /\ UNCHANGED <<tokens, treasuryState, wallets, holderSnapshots, airdrops,
                 creatorRewards, burnRecords,
                 now>>

BuybackReturn(r, ok) ==
  /\ reqs[r].kind = "buyback" /\ reqs[r].pc = "buy"
  /\ LET slot == reqs[r]
         net == Network(r, slot.attempts, ok)
         result == buyToken(net)
     IN  /\ buybackRecords' = updateBuybackRecord(buybackRecords, slot.recId,
              [status |-> OperationStatus(result), txSignature |-> result.txSignature])
         /\ activityLogs' = updateActivityLog(activityLogs, slot.logId,
              [status |-> OperationStatus(result), txSignature |-> result.txSignature])
         /\ reqs' = [reqs EXCEPT ![r] =
              Respond([slot EXCEPT !.results = <<result>>],
                      OperationResponse(result, NumToString(slot.body.solAmount)))]
  /\ UNCHANGED <<tokens, treasuryState, wallets, holderSnapshots, airdrops,
                 creatorRewards, burnRecords,
                 now>>

(***************************************************************************)
(* POST /api/rewards/claim                                                 *)
(***************************************************************************)
ClaimBodies == [tokenMint : Mints \cup {None}]
PendingAmounts == {0, 5}     \* what pumpPortalService.getPendingRewards returns

\* validation and the treasury check; getPendingRewards is then awaited
ClaimRequest(r, body) ==
  /\ FreeSlot(r)
  /\ LET slot == [IdleSlot EXCEPT !.kind = "claim", !.body = body]
     IN  IF ~claimRewardsRequestSchema(body)
         THEN reqs' = [reqs EXCEPT ![r] = Respond(slot, [status |-> 400, error |-> "validation"])]
         ELSE IF getTreasuryWallet(wallets) = <<>>
         THEN reqs' = [reqs EXCEPT ![r] =
                Respond(slot, [status |-> 400, error |-> "Treasury wallet not configured"])]
         ELSE reqs' = [reqs EXCEPT ![r] = [slot EXCEPT !.pc = "pending"]]
  /\ UNCHANGED <<tables, now>>

\* getPendingRewards returns: the record and the log are opened, the claim is submitted
ClaimOpen(r, pendingAmount) ==
  /\ reqs[r].kind = "claim" /\ reqs[r].pc = "pending"
  /\ LET slot == reqs[r]
         rewardId == randomUUID
         logId == randomUUID + 1
     IN  /\ creatorRewards' = createCreatorReward(creatorRewards,
              [tokenMint |-> slot.body.tokenMint, amount |-> NumToString(pendingAmount),
               status |-> "pending"], rewardId, now)
         /\ activityLogs' = createActivityLog(activityLogs,
              [type |-> "claim_rewards", action |-> "claim_creator_rewards",
               amount |-> NumToString(pendingAmount), tokenMint |-> slot.body.tokenMint,
               status |-> "pending"], logId, now)
         /\ reqs' = [reqs EXCEPT ![r] =
              [slot EXCEPT !.pc = "claim", !.recId = rewardId, !.logId = logId,
                           !.pendingAmount = pendingAmount, !.attempts = 1]]
  /\ UNCHANGED <<tokens, treasuryState, wallets, holderSnapshots, airdrops,
                 burnRecords, buybackRecords,
                 now>>

\* result.success ? "claimed" : "failed"
RewardStatus(result) == IF result.success THEN "claimed" ELSE "failed"

ClaimReturn(r, ok) ==
  /\ reqs[r].kind = "claim" /\ reqs[r].pc = "claim"
  /\ LET slot == reqs[r]
         net == Network(r, slot.attempts, ok)
         result == claimCreatorRewards(net)
     IN  /\ creatorRewards' = updateCreatorReward(creatorRewards, slot.recId,
              [status |-> RewardStatus(result), claimTxSignature |-> result.txSignature,
               claimedAt |-> IF result.success THEN now ELSE 0])
         /\ activityLogs' = updateActivityLog(activityLogs, slot.logId,
              [status |-> OperationStatus(result), txSignature |-> result.txSignature])
         /\ reqs' = [reqs EXCEPT ![r] =
              Respond([slot EXCEPT !.results = <<result>>],
                      OperationResponse(result, NumToString(slot.pendingAmount)))]
  /\ UNCHANGED <<tokens, treasuryState, wallets, holderSnapshots, airdrops,
                 burnRecords, buybackRecords,
                 now>>

(***************************************************************************)
(* POST /api/snapshot (server/routes.ts) and SolanaService.getTokenHolders *)
(***************************************************************************)
\* the token accounts the holders API may list: owner and amount, in whole tokens
HolderAccounts ==
  {<<>>,
   <<[owner |-> "A", amount |-> 5]>>,
   <<[owner |-> "A", amount |-> 3], [owner |-> "B", amount |-> 7]>>}

\* one step of a stable sort with comparator parseFloat(b.balance) - parseFloat(a.balance)
InsertByBalance(sorted, x) ==
  LET n == Cardinality({i \in 1..Len(sorted) :
                          ParseNum(sorted[i].balance) >= ParseNum(x.balance)})
  IN  SubSeq(sorted, 1, n) \o <<x>> \o SubSeq(sorted, n + 1, Len(sorted))

RECURSIVE SortByBalance(_, _)
SortByBalance(s, n) ==
  IF n = 0 THEN <<>> ELSE InsertByBalance(SortByBalance(s, n - 1), s[n])

\* totalHeld += balance, over the listed accounts
RECURSIVE AmountHeld(_)
AmountHeld(accounts) ==
  IF accounts = <<>> THEN 0
  ELSE AmountHeld(SubSeq(accounts, 1, Len(accounts) - 1)) + accounts[Len(accounts)].amount

\* the holders of the listed accounts, largest balance first; [] when the API fails.
\* percentage is (balance / totalHeld * 100).toFixed(4), its digits without the point
getTokenHolders(accounts, ok) ==
  LET totalHeld == AmountHeld(accounts)
      holders == [i \in 1..Len(accounts) |->
                   [wallet |-> accounts[i].owner,
                    balance |-> NumToString(accounts[i].amount),
                    percentage |-> IF totalHeld > 0
                                   THEN NumToString((accounts[i].amount * 1000000) \div totalHeld)
                                   ELSE NumToString(0)]]
  IN  IF ok THEN SortByBalance(holders, Len(holders)) ELSE <<>>

snapshotRequestSchema(body) == body.tokenMint # None

SnapshotBodies == [tokenMint : Mints \cup {None}]

\* holders.reduce((sum, h) => sum + parseFloat(h.balance), 0)
RECURSIVE TotalHeld(_)
TotalHeld(holders) ==
  IF holders = <<>> THEN 0
  ELSE TotalHeld(SubSeq(holders, 1, Len(holders) - 1))
         + ParseNum(holders[Len(holders)].balance)

SnapshotRequest(r, body) ==
  /\ FreeSlot(r)
  /\ LET slot == [IdleSlot EXCEPT !.kind = "snapshot", !.body = body]
         logId == randomUUID
     IN  IF ~snapshotRequestSchema(body)
         THEN /\ reqs' = [reqs EXCEPT ![r] = Respond(slot, [status |-> 400, error |-> "validation"])]
              /\ UNCHANGED activityLogs
         ELSE /\ activityLogs' = createActivityLog(activityLogs,
                   [type |-> "snapshot", action |-> "take_snapshot",
                    tokenMint |-> body.tokenMint, status |-> "pending"], logId, now)
              /\ reqs' = [reqs EXCEPT ![r] = [slot EXCEPT !.logId = logId, !.pc = "holders"]]
  /\ UNCHANGED <<tokens, treasuryState, wallets, holderSnapshots, airdrops,
                 creatorRewards, burnRecords,
                 buybackRecords, now>>

\* a handler that stores the snapshot without looking at holders.length
SnapshotReturnUnchecked(r, accounts, ok) ==
  /\ reqs[r].kind = "snapshot" /\ reqs[r].pc = "holders"
  /\ LET slot == reqs[r]
         holders == getTokenHolders(accounts, ok)
         snapshotId == randomUUID
         snapshotMap == createHolderSnapshot(holderSnapshots,
           [tokenMint |-> slot.body.tokenMint, snapshotData |-> holders,
            holderCount |-> Len(holders),
            totalSupplyHeld |-> NumToString(TotalHeld(holders))], snapshotId, now)
         snapshot == MapGet(snapshotMap, snapshotId)
     IN  /\ holderSnapshots' = snapshotMap
         /\ activityLogs' = updateActivityLog(activityLogs, slot.logId,
              [status |-> "success",
               metadata |-> [snapshotId |-> snapshotId, holderCount |-> Len(holders)]])
         /\ reqs' = [reqs EXCEPT ![r] =
              Respond([slot EXCEPT !.recId = snapshotId],
                      [status |-> 200, id |-> snapshot.id,
                       holderCount |-> snapshot.holderCount,
                       totalSupplyHeld |-> snapshot.totalSupplyHeld,
                       createdAt |-> snapshot.createdAt])]
  /\ UNCHANGED <<tokens, treasuryState, wallets, airdrops, creatorRewards, burnRecords,
                 buybackRecords, now>>

SnapshotReturn(r, accounts, ok) ==
  /\ reqs[r].kind = "snapshot" /\ reqs[r].pc = "holders"
  /\ LET slot == reqs[r]
         holders == getTokenHolders(accounts, ok)
         snapshotId == randomUUID
         snapshotMap == createHolderSnapshot(holderSnapshots,
           [tokenMint |-> slot.body.tokenMint, snapshotData |-> holders,
            holderCount |-> Len(holders),
            totalSupplyHeld |-> NumToString(TotalHeld(holders))], snapshotId, now)
         snapshot == MapGet(snapshotMap, snapshotId)
     IN  IF Len(holders) = 0
         THEN /\ activityLogs' = updateActivityLog(activityLogs, slot.logId,
                   [status |-> "failed",
                    metadata |-> [error |-> "No holders found or Helius API unavailable"]])
              /\ reqs' = [reqs EXCEPT ![r] =
                   Respond(slot, [status |-> 404, error |-> "No holders found"])]
              /\ UNCHANGED holderSnapshots
         ELSE /\ holderSnapshots' = snapshotMap
              /\ activityLogs' = updateActivityLog(activityLogs, slot.logId,
                   [status |-> "success",
                    metadata |-> [snapshotId |-> snapshotId, holderCount |-> Len(holders)]])
              /\ reqs' = [reqs EXCEPT ![r] =
                   Respond([slot EXCEPT !.recId = snapshotId],
                           [status |-> 200, id |-> snapshot.id,
                            holderCount |-> snapshot.holderCount,
                            totalSupplyHeld |-> snapshot.totalSupplyHeld,
                            createdAt |-> snapshot.createdAt])]
  /\ UNCHANGED <<tokens, treasuryState, wallets, airdrops, creatorRewards, burnRecords,
                 buybackRecords, now>>

(***************************************************************************)
(* POST /api/wallet/generate                                               *)
(***************************************************************************)
\* solanaService.generateWallet(): a fresh keypair
generateWallet(n) == [publicKey |-> <<"pub", n>>, privateKey |-> <<"priv", n>>]

(***************************************************************************)
(* The clock, and the specification of the API                             *)
(***************************************************************************)
Tick ==
  /\ now < MaxTime
  /\ now' = now + 1
  /\ UNCHANGED <<tables, reqs>>


\* the store as constructed
Fresh ==
  /\ wallets = <<>>
  /\ tokens = <<>>
  /\ treasuryState = <<>>
  /\ holderSnapshots = <<>>
  /\ activityLogs = <<>>
  /\ airdrops = <<>>
  /\ creatorRewards = <<>>
  /\ burnRecords = <<>>
  /\ buybackRecords = <<>>
  /\ now = 1
  /\ reqs = [r \in Requests |-> IdleSlot]

\* the state POST /api/wallet/generate { type: "treasury" } leaves a fresh store in
Funded ==
  /\ wallets = createWallet(<<>>,
       [publicKey |-> generateWallet(1).publicKey,
        encryptedPrivateKey |-> generateWallet(1).privateKey, type |-> "treasury"], 1, 1)
  /\ activityLogs = createActivityLog(<<>>,
       [type |-> "wallet", action |-> "generate",
        metadata |-> [publicKey |-> generateWallet(1).publicKey, type |-> "treasury"],
        status |-> "success"], 2, 1)
  /\ tokens = <<>>
  /\ treasuryState = <<>>
  /\ holderSnapshots = <<>>
  /\ airdrops = <<>>
  /\ creatorRewards = <<>>
  /\ burnRecords = <<>>
  /\ buybackRecords = <<>>
  /\ now = 1
  /\ reqs = [r \in Requests |-> IdleSlot]

\* the operation endpoints, before and after the treasury wallet is configured
Init == Fresh \/ Funded

AirdropStep ==
  \/ \E r \in Requests : FreeSlot(r) /\
       \E asset \in AirdropAssets, rs \in RecipientLists, sn \in SnapshotChoices :
         AirdropRequest(r, AirdropBody(asset, rs, sn))
  \/ \E r \in Requests, ok \in BOOLEAN : TransferReturn(r, ok)
  \/ \E r \in Requests : DelayElapsed(r)

Next ==
  \/ AirdropStep
  \/ \E r \in Requests, body \in BurnBodies : BurnRequest(r, body)
  \/ \E r \in Requests, ok \in BOOLEAN : BurnReturn(r, ok)
  \/ \E r \in Requests, body \in BuybackBodies : BuybackRequest(r, body)
  \/ \E r \in Requests, ok \in BOOLEAN : BuybackReturn(r, ok)
  \/ \E r \in Requests, body \in ClaimBodies : ClaimRequest(r, body)
  \/ \E r \in Requests, amt \in PendingAmounts : ClaimOpen(r, amt)
  \/ \E r \in Requests, ok \in BOOLEAN : ClaimReturn(r, ok)

Spec == Init /\ [][Next]_vars

\* distributions next to holder snapshots
SnapshotNext ==
  \/ \E r \in Requests, body \in SnapshotBodies : SnapshotRequest(r, body)
  \/ \E r \in Requests, accounts \in HolderAccounts, ok \in BOOLEAN :
       SnapshotReturn(r, accounts, ok)
  \/ AirdropStep

SpecSnapshot == Init /\ [][SnapshotNext]_vars

(***************************************************************************)
(* Views of the state used by the properties                               *)
(***************************************************************************)
\* request r has ended with the HTTP status `code`
Ended(r, code) == reqs[r].pc = "done" /\ reqs[r].resp.status = code

\* the operation record and the activity log entry request r opened
RecordOf(r) ==
  LET slot == reqs[r]
  IN  CASE slot.kind = "airdrop" -> MapGet(airdrops, slot.recId)
        [] slot.kind = "burn" -> MapGet(burnRecords, slot.recId)
        [] slot.kind = "buyback" -> MapGet(buybackRecords, slot.recId)
        [] slot.kind = "claim" -> MapGet(creatorRewards, slot.recId)
LogOf(r) == MapGet(activityLogs, reqs[r].logId)

\* the distribution of request r has been closed (its handler reached updateAirdrop)
ClosedAirdrop(r) == reqs[r].kind = "airdrop" /\ Ended(r, 200)

\* the gateway results of request r, in the order the calls returned
Succeeded(r) == {i \in 1..Len(reqs[r].results) : reqs[r].results[i].result.success}
Failed(r) == {i \in 1..Len(reqs[r].results) : ~reqs[r].results[i].result.success}

\* the sum of s[i].amount over the indices of s
RECURSIVE SumFrom(_, _)
SumFrom(s, i) == IF i > Len(s) THEN 0 ELSE s[i].amount + SumFrom(s, i + 1)

TerminalStatuses == {"success", "failed", "completed", "partial"}

(***************************************************************************)
(* C1  Aggregate status law: a distribution closed by POST /api/airdrop is *)
(* stored `failed` when no transfer succeeded, `completed` when all did,   *)
(* `partial` when some did and some did not.                               *)
(***************************************************************************)
C1_AggregateStatusLaw ==
  \A r \in Requests : ClosedAirdrop(r) =>
    RecordOf(r).status =
      IF Succeeded(r) = {} THEN "failed"
      ELSE IF Failed(r) = {} THEN "completed" ELSE "partial"

(***************************************************************************)
(* C2  A type `token` distribution request without tokenMint is rejected   *)
(* before any record is opened: handling it adds no airdrop record and no  *)
(* activity log entry, and makes no gateway transfer.                      *)
(***************************************************************************)
C2_MissingMintOpensNothing ==
  [][\A r \in Requests :
       (/\ reqs[r].pc = "idle"
        /\ reqs'[r].kind = "airdrop"
        /\ reqs'[r].body.type = "token"
        /\ reqs'[r].body.tokenMint = None)
       => /\ reqs'[r].pc = "done"
          /\ reqs'[r].resp.status = 400
          /\ reqs'[r].attempts = 0
          /\ airdrops' = airdrops
          /\ activityLogs' = activityLogs]_vars

(***************************************************************************)
(* C4  Total-amount accounting: totalAmount of every airdrop record is the *)
(* sum of the request's recipient amounts; once the record is terminal the *)
(* amounts of its stored outcomes add up to totalAmount and recipientCount *)
(* is the number of stored outcomes.                                       *)
(***************************************************************************)
C4_TotalAmountAccounting ==
  \A r \in Requests : (reqs[r].kind = "airdrop" /\ reqs[r].recId # 0) =>
    LET a == RecordOf(r)
    IN  /\ a.totalAmount = NumToString(SumFrom(reqs[r].body.recipients, 1))
        /\ ParseNum(a.totalAmount) = SumFrom(reqs[r].body.recipients, 1)
        /\ a.status \in TerminalStatuses =>
             /\ SumFrom(a.distributionData, 1) = ParseNum(a.totalAmount)
             /\ a.recipientCount = Len(a.distributionData)

C4_Witness ==
  \E r \in Requests :
    /\ ClosedAirdrop(r)
    /\ Len(RecordOf(r).distributionData) = 2
    /\ RecordOf(r).distributionData[1].amount # RecordOf(r).distributionData[2].amount
    /\ Len(RecordOf(r).totalAmount) = 2

(***************************************************************************)
(* C5  Partial-failure reporting: when some transfers of a distribution    *)
(* succeed and some fail, the record is `partial`, the response counts are *)
(* the numbers of successful and failed stored outcomes and add up to      *)
(* recipientCount, the response id is the record's id, and every failed    *)
(* outcome carries the error string the gateway returned for it.           *)
(***************************************************************************)
C5_PartialFailureReporting ==
  \A r \in Requests :
    (ClosedAirdrop(r) /\ Succeeded(r) # {} /\ Failed(r) # {}) =>
      LET a == RecordOf(r)
          out == a.distributionData
          resp == reqs[r].resp
      IN  /\ a.status = "partial"
          /\ resp.successCount = Cardinality({i \in 1..Len(out) : out[i].success})
          /\ resp.failCount = Cardinality({i \in 1..Len(out) : ~out[i].success})
          /\ resp.successCount + resp.failCount = a.recipientCount
          /\ MapHas(airdrops, resp.id) /\ MapGet(airdrops, resp.id) = a /\ a.id = resp.id
          /\ \A i \in 1..Len(out) : ~out[i].success => out[i].error = Errors[r][i]
          /\ \A i \in 1..Len(out) : out[i].success <=> i \in Succeeded(r)

C5_Witness ==
  \E r \in Requests :
    /\ ClosedAirdrop(r)
    /\ reqs[r].body.type = "token"
    /\ Succeeded(r) = {1} /\ Failed(r) = {2}
    /\ RecordOf(r).distributionData[2].error = Errors[r][2]

(***************************************************************************)
(* C6  A distribution request with an empty recipients list, or with an    *)
(* amount that is not strictly positive, is rejected before any record is  *)
(* created: no airdrop record, no activity log entry, no gateway transfer. *)
(***************************************************************************)
C6_InvalidRecipientsOpenNothing ==
  [][\A r \in Requests :
       (/\ reqs[r].pc = "idle"
        /\ reqs'[r].kind = "airdrop"
        /\ \/ reqs'[r].body.recipients = <<>>
           \/ \E i \in 1..Len(reqs'[r].body.recipients) :
                reqs'[r].body.recipients[i].amount <= 0)
       => /\ reqs'[r].pc = "done"
          /\ reqs'[r].resp.status = 400
          /\ reqs'[r].attempts = 0
          /\ reqs'[r].recId = 0 /\ reqs'[r].logId = 0
          /\ airdrops' = airdrops
          /\ activityLogs' = activityLogs]_vars

\* both kinds of invalid list have been refused by a store that has its treasury wallet
C6_Witness ==
  /\ getTreasuryWallet(wallets) # <<>>
  /\ \E r \in Requests :
       /\ reqs[r].kind = "airdrop" /\ Ended(r, 400)
       /\ reqs[r].body.recipients = <<>>
  /\ \E r \in Requests :
       /\ reqs[r].kind = "airdrop" /\ Ended(r, 400)
       /\ reqs[r].body.recipients # <<>>
       /\ \E i \in 1..Len(reqs[r].body.recipients) : reqs[r].body.recipients[i].amount <= 0
  /\ airdrops = <<>>

(***************************************************************************)
(* C7  Burn lifecycle: the burn record and its activity log entry are      *)
(* created `pending`; when the gateway burn succeeds the record moves once *)
(* to `success` with the gateway's signature and the log entry ends in     *)
(* `success` with the same signature; when it fails both end in `failed`.  *)
(***************************************************************************)
BurnOpened(r) == reqs[r].kind = "burn" /\ reqs[r].recId # 0

C7_BurnStates ==
  \A r \in Requests : BurnOpened(r) =>
    LET rec == RecordOf(r)
        log == LogOf(r)
    IN  /\ reqs[r].pc = "burn" =>
             /\ rec.status = "pending" /\ log.status = "pending"
             /\ Field(rec, "txSignature") = None /\ Field(log, "txSignature") = None
        /\ reqs[r].pc = "done" =>
             IF reqs[r].results[1].success
             THEN /\ rec.status = "success" /\ rec.txSignature = Signatures[r][1]
                  /\ log.status = "success" /\ log.txSignature = Signatures[r][1]
                  /\ reqs[r].resp.status = 200
             ELSE /\ rec.status = "failed" /\ log.status = "failed"

\* a burn record's status changes only from `pending`, to `success` or `failed`
C7_BurnMovesOnce ==
  \A i \in 1..Len(burnRecords) :
    burnRecords'[i].v.status # burnRecords[i].v.status =>
      /\ burnRecords[i].v.status = "pending"
      /\ burnRecords'[i].v.status \in {"success", "failed"}

C7_BurnLifecycle == []C7_BurnStates /\ [][C7_BurnMovesOnce]_vars

C7_Witness ==
  \E r \in Requests :
    /\ BurnOpened(r) /\ Ended(r, 200)
    /\ RecordOf(r).status = "success"
    /\ RecordOf(r).txSignature = Signatures[r][1]
    /\ LogOf(r).status = "success"

(***************************************************************************)
(* C8  For every operation kind, when the operation record is closed to a  *)
(* terminal status its paired activity log entry is closed with the same   *)
(* status value.                                                           *)
(***************************************************************************)
Closed(r) ==
  /\ reqs[r].kind \in {"airdrop", "burn", "buyback", "claim"}
  /\ reqs[r].pc = "done" /\ reqs[r].recId # 0
  /\ RecordOf(r).status \notin {"pending", "processing"}

StoreMints == {"M1", "M2"}
StoreIds == 1..(RecordCount + 1)          \* every stored id, and one that is not
StoreLimits == {1, AirdropsDefaultLimit}

StoreCreateHolderSnapshot(tokenMint) ==
  /\ RecordCount < MaxStoreCalls
  /\ holderSnapshots' = createHolderSnapshot(holderSnapshots,
       [tokenMint |-> tokenMint,
        snapshotData |-> <<[wallet |-> "A", balance |-> NumToString(7), percentage |-> NumToString(1000000)]>>,
        holderCount |-> 1, totalSupplyHeld |-> NumToString(7)], randomUUID, now)
  /\ UNCHANGED <<tokens, treasuryState, wallets, activityLogs, airdrops,
                 creatorRewards, burnRecords,
                 buybackRecords, now, reqs>>

StoreCreateActivityLog(type) ==
  /\ RecordCount < MaxStoreCalls
  /\ activityLogs' = createActivityLog(activityLogs,
       [type |-> type, action |-> "act", status |-> "pending"], randomUUID, now)
  /\ UNCHANGED <<tokens, treasuryState, wallets, holderSnapshots, airdrops,
                 creatorRewards, burnRecords,
                 buybackRecords, now, reqs>>

StoreUpdateActivityLog(id, status) ==
  /\ activityLogs' = updateActivityLog(activityLogs, id, [status |-> status])
  /\ UNCHANGED <<tokens, treasuryState, wallets, holderSnapshots, airdrops,
                 creatorRewards, burnRecords,
                 buybackRecords, now, reqs>>

StoreCreateAirdrop ==
  /\ RecordCount < MaxStoreCalls
  /\ airdrops' = createAirdrop(airdrops,
       NewAirdrop([type |-> "sol", tokenMint |-> None,
                   recipients |-> <<[wallet |-> "A", amount |-> 5]>>,
                   useSnapshot |-> FALSE, snapshotId |-> 0]), randomUUID, now)
  /\ UNCHANGED <<tokens, treasuryState, wallets, holderSnapshots, activityLogs,
                 creatorRewards, burnRecords,
                 buybackRecords, now, reqs>>

StoreUpdateAirdrop(id, status) ==
  /\ airdrops' = updateAirdrop(airdrops, id,
       [distributionData |->
          <<[wallet |-> "A", amount |-> 5, txSignature |-> None,
             success |-> status = "completed", error |-> None]>>,
        status |-> status, completedAt |-> now])
  /\ UNCHANGED <<tokens, treasuryState, wallets, holderSnapshots, activityLogs,
                 creatorRewards, burnRecords,
                 buybackRecords, now, reqs>>

StoreCreateCreatorReward(tokenMint) ==
  /\ RecordCount < MaxStoreCalls
  /\ creatorRewards' = createCreatorReward(creatorRewards,
       [tokenMint |-> tokenMint, amount |-> NumToString(5), status |-> "pending"],
       randomUUID, now)
  /\ UNCHANGED <<tokens, treasuryState, wallets, holderSnapshots, activityLogs,
                 airdrops, burnRecords,
                 buybackRecords, now, reqs>>

StoreUpdateCreatorReward(id, status) ==
  /\ creatorRewards' = updateCreatorReward(creatorRewards, id,
       [status |-> status, claimTxSignature |-> None,
        claimedAt |-> IF status = "claimed" THEN now ELSE 0])
  /\ UNCHANGED <<tokens, treasuryState, wallets, holderSnapshots, activityLogs,
                 airdrops, burnRecords,
                 buybackRecords, now, reqs>>

StoreCreateBurnRecord(tokenMint) ==
  /\ RecordCount < MaxStoreCalls
  /\ burnRecords' = createBurnRecord(burnRecords,
       [tokenMint |-> tokenMint, amount |-> NumToString(5), status |-> "pending"],
       randomUUID, now)
  /\ UNCHANGED <<tokens, treasuryState, wallets, holderSnapshots, activityLogs,
                 airdrops, creatorRewards,
                 buybackRecords, now, reqs>>

StoreUpdateBurnRecord(id, status) ==
  /\ burnRecords' = updateBurnRecord(burnRecords, id,
       [status |-> status, txSignature |-> None])
  /\ UNCHANGED <<tokens, treasuryState, wallets, holderSnapshots, activityLogs,
                 airdrops, creatorRewards,
                 buybackRecords, now, reqs>>

StoreCreateBuybackRecord(tokenMint) ==
  /\ RecordCount < MaxStoreCalls
  /\ buybackRecords' = createBuybackRecord(buybackRecords,
       [tokenMint |-> tokenMint, solSpent |-> NumToString(5), status |-> "pending"],
       randomUUID, now)
  /\ UNCHANGED <<tokens, treasuryState, wallets, holderSnapshots, activityLogs,
                 airdrops, creatorRewards,
                 burnRecords, now, reqs>>

StoreUpdateBuybackRecord(id, status) ==
  /\ buybackRecords' = updateBuybackRecord(buybackRecords, id,
       [status |-> status, txSignature |-> None])
  /\ UNCHANGED <<tokens, treasuryState, wallets, holderSnapshots, activityLogs,
                 airdrops, creatorRewards,
                 burnRecords, now, reqs>>

\* a read: the Maps become what the method leaves them
StoreRead(snaps, logs, drops, rewards, burns, buybacks) ==
  /\ holderSnapshots' = snaps
  /\ activityLogs' = logs
  /\ airdrops' = drops
  /\ creatorRewards' = rewards
  /\ burnRecords' = burns
  /\ buybackRecords' = buybacks
  /\ UNCHANGED <<tokens, treasuryState, wallets, now, reqs>>

StoreGetHolderSnapshot(id) ==
  LET c == getHolderSnapshot(holderSnapshots, id)
  IN  StoreRead(c.map, activityLogs, airdrops, creatorRewards,
                burnRecords, buybackRecords)

StoreGetSnapshotHistory(tokenMint, limit) ==
  LET c == getSnapshotHistory(holderSnapshots, tokenMint, limit)
  IN  StoreRead(c.map, activityLogs, airdrops, creatorRewards,
                burnRecords, buybackRecords)

StoreGetActivityLog(id) ==
  LET c == getActivityLog(activityLogs, id)
  IN  StoreRead(holderSnapshots, c.map, airdrops, creatorRewards,
                burnRecords, buybackRecords)

StoreGetActivityLogs(limit, offset) ==
  LET c == getActivityLogs(activityLogs, limit, offset)
  IN  StoreRead(holderSnapshots, c.map, airdrops, creatorRewards,
                burnRecords, buybackRecords)

StoreGetActivityLogsByType(type, limit) ==
  LET c == getActivityLogsByType(activityLogs, type, limit)
  IN  StoreRead(holderSnapshots, c.map, airdrops,
                creatorRewards, burnRecords, buybackRecords)

StoreGetAirdrop(id) ==
  LET c == getAirdrop(airdrops, id)
  IN  StoreRead(holderSnapshots, activityLogs, c.map, creatorRewards,
                burnRecords, buybackRecords)

StoreGetAirdrops(limit) ==
  LET c == getAirdrops(airdrops, limit)
  IN  StoreRead(holderSnapshots, activityLogs, c.map, creatorRewards,
                burnRecords, buybackRecords)

StoreGetCreatorReward(id) ==
  LET c == getCreatorReward(creatorRewards, id)
  IN  StoreRead(holderSnapshots, activityLogs, airdrops, c.map,
                burnRecords, buybackRecords)

StoreGetCreatorRewards(tokenMint) ==
  LET c == getCreatorRewards(creatorRewards, tokenMint)
  IN  StoreRead(holderSnapshots, activityLogs, airdrops, c.map,
                burnRecords, buybackRecords)

StoreGetBurnRecord(id) ==
  LET c == getBurnRecord(burnRecords, id)
  IN  StoreRead(holderSnapshots, activityLogs, airdrops,
                creatorRewards, c.map, buybackRecords)

StoreGetBurnRecords(tokenMint) ==
  LET c == getBurnRecords(burnRecords, tokenMint)
  IN  StoreRead(holderSnapshots, activityLogs, airdrops,
                creatorRewards, c.map, buybackRecords)

StoreGetBuybackRecord(id) ==
  LET c == getBuybackRecord(buybackRecords, id)
  IN  StoreRead(holderSnapshots, activityLogs, airdrops,
                creatorRewards, burnRecords, c.map)

StoreGetBuybackRecords(tokenMint) ==
  LET c == getBuybackRecords(buybackRecords, tokenMint)
  IN  StoreRead(holderSnapshots, activityLogs, airdrops,
                creatorRewards, burnRecords, c.map)

StoreWrite ==
  \/ \E tm \in Mints : StoreCreateHolderSnapshot(tm)
  \/ \E type \in {"burn", "thought"} : StoreCreateActivityLog(type)
  \/ \E id \in StoreIds : StoreUpdateActivityLog(id, "success")
  \/ StoreCreateAirdrop
  \/ \E id \in StoreIds, st \in {"completed", "partial"} : StoreUpdateAirdrop(id, st)
  \/ \E tm \in Mints : StoreCreateCreatorReward(tm)
  \/ \E id \in StoreIds : StoreUpdateCreatorReward(id, "claimed")
  \/ \E tm \in StoreMints : StoreCreateBurnRecord(tm)
  \/ \E id \in StoreIds, st \in {"success", "failed"} : StoreUpdateBurnRecord(id, st)
  \/ \E tm \in Mints : StoreCreateBuybackRecord(tm)
  \/ \E id \in StoreIds : StoreUpdateBuybackRecord(id, "failed")

StoreReads ==
  \/ \E id \in StoreIds : StoreGetHolderSnapshot(id)
  \/ \E tm \in StoreMints, limit \in StoreLimits : StoreGetSnapshotHistory(tm, limit)
  \/ \E id \in StoreIds : StoreGetActivityLog(id)
  \/ \E limit \in StoreLimits, offset \in {0, 1} : StoreGetActivityLogs(limit, offset)
  \/ \E type \in {"burn", "thought"}, limit \in StoreLimits :
       StoreGetActivityLogsByType(type, limit)
  \/ \E id \in StoreIds : StoreGetAirdrop(id)
  \/ \E limit \in StoreLimits : StoreGetAirdrops(limit)
  \/ \E id \in StoreIds : StoreGetCreatorReward(id)
  \/ \E tm \in StoreMints \cup {None} : StoreGetCreatorRewards(tm)
  \/ \E id \in StoreIds : StoreGetBurnRecord(id)
  \/ \E tm \in StoreMints \cup {None} : StoreGetBurnRecords(tm)
  \/ \E id \in StoreIds : StoreGetBuybackRecord(id)
  \/ \E tm \in StoreMints \cup {None} : StoreGetBuybackRecords(tm)

StoreNext == StoreWrite \/ StoreReads \/ Tick

SpecStore == Fresh /\ [][StoreNext]_vars

(***************************************************************************)
(* C3  Closing an already-terminal record is rejected: an update of an     *)
(* airdrop, burn, buyback or reward record whose status is already         *)
(* terminal leaves the stored record unchanged.                            *)
(***************************************************************************)
TerminalKept(m, after) ==
  \A i \in 1..Len(m) : m[i].v.status \in TerminalStatuses => after[i] = m[i]

C3_TerminalCloseRejected ==
  [][/\ TerminalKept(airdrops, airdrops')
     /\ TerminalKept(burnRecords, burnRecords')
     /\ TerminalKept(buybackRecords, buybackRecords')
     /\ TerminalKept(creatorRewards, creatorRewards')]_vars

(***************************************************************************)
(* C9  Reads never mutate: a get-by-id or list call on the store leaves    *)
(* every Map as it was, entry for entry and in the same order, and every   *)
(* read made after it returns what it would have returned before it.       *)
(***************************************************************************)
\* what the reads of one Map return, for every id and argument
SnapshotReads(m) ==
  [byId |-> [id \in StoreIds |-> getHolderSnapshot(m, id).result],
   list |-> [tm \in StoreMints |-> getSnapshotHistory(m, tm, SnapshotHistoryDefaultLimit).result]]
LogReads(m) ==
  [byId |-> [id \in StoreIds |-> getActivityLog(m, id).result],
   list |-> [offset \in {0, 1} |-> getActivityLogs(m, ActivityLogsDefaultLimit, offset).result],
   byType |-> [type \in {"burn", "thought"} |->
                 getActivityLogsByType(m, type, ActivityLogsByTypeDefaultLimit).result]]
AirdropReads(m) ==
  [byId |-> [id \in StoreIds |-> getAirdrop(m, id).result],
   list |-> [limit \in StoreLimits |-> getAirdrops(m, limit).result]]
RewardReads(m) ==
  [byId |-> [id \in StoreIds |-> getCreatorReward(m, id).result],
   list |-> [tm \in StoreMints \cup {None} |-> getCreatorRewards(m, tm).result]]
BurnReads(m) ==
  [byId |-> [id \in StoreIds |-> getBurnRecord(m, id).result],
   list |-> [tm \in StoreMints \cup {None} |-> getBurnRecords(m, tm).result]]
BuybackReads(m) ==
  [byId |-> [id \in StoreIds |-> getBuybackRecord(m, id).result],
   list |-> [tm \in StoreMints \cup {None} |-> getBuybackRecords(m, tm).result]]

\* the Map each read of it leaves behind
SnapshotsAfterRead ==
  {getHolderSnapshot(holderSnapshots, id).map : id \in StoreIds}
    \cup {getSnapshotHistory(holderSnapshots, tm, limit).map :
            tm \in StoreMints, limit \in StoreLimits}
LogsAfterRead ==
  {getActivityLog(activityLogs, id).map : id \in StoreIds}
    \cup {getActivityLogs(activityLogs, limit, offset).map :
            limit \in StoreLimits, offset \in {0, 1}}
    \cup {getActivityLogsByType(activityLogs, type, limit).map :
            type \in {"burn", "thought"}, limit \in StoreLimits}
AirdropsAfterRead ==
  {getAirdrop(airdrops, id).map : id \in StoreIds}
    \cup {getAirdrops(airdrops, limit).map : limit \in StoreLimits}
RewardsAfterRead ==
  {getCreatorReward(creatorRewards, id).map : id \in StoreIds}
    \cup {getCreatorRewards(creatorRewards, tm).map : tm \in StoreMints \cup {None}}
BurnsAfterRead ==
  {getBurnRecord(burnRecords, id).map : id \in StoreIds}
    \cup {getBurnRecords(burnRecords, tm).map : tm \in StoreMints \cup {None}}
BuybacksAfterRead ==
  {getBuybackRecord(buybackRecords, id).map : id \in StoreIds}
    \cup {getBuybackRecords(buybackRecords, tm).map : tm \in StoreMints \cup {None}}

C9_ReadsNeverMutate ==
  /\ \A m \in SnapshotsAfterRead :
       m = holderSnapshots /\ SnapshotReads(m) = SnapshotReads(holderSnapshots)
  /\ \A m \in LogsAfterRead :
       m = activityLogs /\ LogReads(m) = LogReads(activityLogs)
  /\ \A m \in AirdropsAfterRead :
       m = airdrops /\ AirdropReads(m) = AirdropReads(airdrops)
  /\ \A m \in RewardsAfterRead :
       m = creatorRewards /\ RewardReads(m) = RewardReads(creatorRewards)
  /\ \A m \in BurnsAfterRead :
       m = burnRecords /\ BurnReads(m) = BurnReads(burnRecords)
  /\ \A m \in BuybacksAfterRead :
       m = buybackRecords /\ BuybackReads(m) = BuybackReads(buybackRecords)

\* a store whose airdrops a listing returns in another order than the Map holds them
C9_Witness ==
  /\ Len(airdrops) = 2
  /\ getAirdrops(airdrops, AirdropsDefaultLimit).result # MapValues(airdrops)
  /\ getAirdrops(airdrops, AirdropsDefaultLimit).map = airdrops

(***************************************************************************)
(* C10  Proportional allocation: a distribution requested with useSnapshot *)
(* and the id of a stored snapshot pays the snapshot's holders, every      *)
(* holder but the last total * balance / totalSupplyHeld, the last holder  *)
(* the rest of the total, so that the amounts add up to the total.         *)
(***************************************************************************)
Share(snapshot, total, i) ==
  (total * ParseNum(snapshot.snapshotData[i].balance)) \div ParseNum(snapshot.totalSupplyHeld)

RECURSIVE SharesBefore(_, _, _)
SharesBefore(snapshot, total, i) ==
  IF i <= 1 THEN 0
  ELSE SharesBefore(snapshot, total, i - 1) + Share(snapshot, total, i - 1)

Allocation(snapshot, total, i) ==
  IF i < Len(snapshot.snapshotData) THEN Share(snapshot, total, i)
  ELSE total - SharesBefore(snapshot, total, i)

C10_ProportionalAllocation ==
  \A r \in Requests :
    (/\ ClosedAirdrop(r)
     /\ reqs[r].body.useSnapshot
     /\ MapHas(holderSnapshots, reqs[r].body.snapshotId)) =>
      LET snapshot == MapGet(holderSnapshots, reqs[r].body.snapshotId)
          total == ParseNum(RecordOf(r).totalAmount)
          out == RecordOf(r).distributionData
      IN  /\ Len(out) = Len(snapshot.snapshotData)
          /\ \A i \in 1..Len(out) :
               /\ out[i].wallet = snapshot.snapshotData[i].wallet
               /\ out[i].amount = Allocation(snapshot, total, i)

(***************************************************************************)
(* C11  A recipient failure never aborts the batch and is never retried:   *)
(* the k-th gateway transfer of a distribution is for its k-th recipient,  *)
(* and when the batch has returned the transfer has been invoked exactly   *)
(* once for each of the N recipients, whatever subset failed.              *)
(***************************************************************************)
C11_OneAttemptEach ==
  \A r \in Requests : (reqs[r].kind = "airdrop" /\ reqs[r].recId # 0) =>
    LET slot == reqs[r]
        n == Len(slot.body.recipients)
    IN  /\ slot.attempts = Len(slot.results) + (IF slot.pc = "transfer" THEN 1 ELSE 0)
        /\ slot.attempts <= n
        /\ \A i \in 1..Len(slot.results) :
             slot.results[i].wallet = slot.body.recipients[i].wallet
        /\ ClosedAirdrop(r) => slot.attempts = n /\ Len(slot.results) = n

C11_Witness ==
  \E r \in Requests :
    /\ ClosedAirdrop(r)
    /\ Len(reqs[r].body.recipients) = 2
    /\ ~reqs[r].results[1].result.success
    /\ reqs[r].attempts = 2

(***************************************************************************)
(* C12  Distribution record lifecycle: an airdrop record is created        *)
(* `processing` with no outcomes and a null completedAt; a record in       *)
(* `processing` has no outcomes and a null completedAt, any other record   *)
(* has recipientCount outcomes and a completedAt; a record is written once *)
(* after its creation, by the step that takes it out of `processing`.      *)
(***************************************************************************)
C12_RecordStates ==
  \A i \in 1..Len(airdrops) :
    LET a == airdrops[i].v
    IN  IF a.status = "processing"
        THEN a.distributionData = <<>> /\ a.completedAt = 0
        ELSE Len(a.distributionData) = a.recipientCount /\ a.completedAt # 0

C12_WrittenOnce ==
  /\ \A i \in 1..Len(airdrops) :
       airdrops'[i] # airdrops[i] =>
         /\ airdrops[i].v.status = "processing"
         /\ airdrops'[i].v.status # "processing"
  /\ \A i \in (Len(airdrops) + 1)..Len(airdrops') :
       /\ airdrops'[i].v.status = "processing"
       /\ airdrops'[i].v.distributionData = <<>>
       /\ airdrops'[i].v.completedAt = 0

C14_OutcomeOrder ==
  \A r \in Requests : ClosedAirdrop(r) =>
    LET out == RecordOf(r).distributionData
        recipients == reqs[r].body.recipients
    IN  /\ Len(out) = Len(recipients)
        /\ \A i \in 1..Len(out) :
             /\ out[i].wallet = recipients[i].wallet
             /\ out[i].amount = recipients[i].amount
             /\ out[i].success = reqs[r].results[i].result.success
             /\ IF out[i].success
                THEN out[i].txSignature = Signatures[r][i] /\ out[i].error = None
                ELSE out[i].error = Errors[r][i] /\ out[i].txSignature = None

C14_Witness ==
  \E r \in Requests :
    /\ ClosedAirdrop(r)
    /\ Len(RecordOf(r).distributionData) = 2
    /\ RecordOf(r).distributionData[1].wallet # RecordOf(r).distributionData[2].wallet
    /\ ~RecordOf(r).distributionData[1].success
    /\ RecordOf(r).distributionData[2].success

(***************************************************************************)
(* C13  One status vocabulary for the single-call operations: the status   *)
(* of every burn, buyback and reward-claim record is `pending`, `success`  *)
(* or `failed`, and a status only moves from `pending` to one of the other *)
(* two.                                                                    *)
(***************************************************************************)
SingleCallStatuses == {"pending", "success", "failed"}

SingleCallMoves(m, after) ==
  \A i \in 1..Len(m) :
    after[i].v.status # m[i].v.status =>
      m[i].v.status = "pending" /\ after[i].v.status \in {"success", "failed"}

C13_StatusVocabulary ==
  /\ \A i \in 1..Len(burnRecords) : burnRecords[i].v.status \in SingleCallStatuses
  /\ \A i \in 1..Len(buybackRecords) : buybackRecords[i].v.status \in SingleCallStatuses
  /\ \A i \in 1..Len(creatorRewards) : creatorRewards[i].v.status \in SingleCallStatuses

C13_SharedVocabulary ==
  []C13_StatusVocabulary
    /\ [][/\ SingleCallMoves(burnRecords, burnRecords')
          /\ SingleCallMoves(buybackRecords, buybackRecords')
          /\ SingleCallMoves(creatorRewards, creatorRewards')]_vars

(***************************************************************************)
(* C15  Listing is newest-first and filtered: getAirdrops, getActivityLogs,*)
(* getBurnRecords, getBuybackRecords and getCreatorRewards return records  *)
(* in non-increasing order of creation time, and with a tokenMint or an    *)
(* activity type filter the result holds exactly the stored records that   *)
(* match it.                                                               *)
(***************************************************************************)
Range(s) == {s[i] : i \in 1..Len(s)}
NewestFirst(s) == \A i, j \in 1..Len(s) : i < j => s[i].createdAt >= s[j].createdAt
\* s lists every record of the set S once
ListsAll(s, S) == Range(s) = S /\ Len(s) = Cardinality(S)
\* s lists, each once, the `limit` newest records of the set S
ListsNewest(s, S, limit) ==
  /\ Range(s) \subseteq S
  /\ Len(s) = Min(limit, Cardinality(S)) /\ Cardinality(Range(s)) = Len(s)
  /\ \A x \in S \ Range(s), y \in Range(s) : y.createdAt >= x.createdAt
Stored(m) == Range(MapValues(m))
WithMint(m, tm) == {x \in Stored(m) : tm = None \/ x.tokenMint = tm}
LogTypes == {"burn", "thought"}

\* the statement as given: a filtered listing holds every matching record
C15_FilterReturnsAllMatching ==
  /\ \A tm \in StoreMints \cup {None} :
       /\ ListsAll(getBurnRecords(burnRecords, tm).result, WithMint(burnRecords, tm))
       /\ ListsAll(getBuybackRecords(buybackRecords, tm).result, WithMint(buybackRecords, tm))
       /\ ListsAll(getCreatorRewards(creatorRewards, tm).result, WithMint(creatorRewards, tm))
  /\ \A type \in LogTypes, limit \in StoreLimits :
       ListsAll(getActivityLogsByType(activityLogs, type, limit).result,
                {l \in Stored(activityLogs) : l.type = type})

\* as amended: the listings that take a limit hold the `limit` newest matching
\* records, getActivityLogs those that follow the `offset` newest
C15_NewestFirstFiltered ==
  /\ \A tm \in StoreMints \cup {None} :
       /\ ListsAll(getBurnRecords(burnRecords, tm).result, WithMint(burnRecords, tm))
       /\ NewestFirst(getBurnRecords(burnRecords, tm).result)
       /\ ListsAll(getBuybackRecords(buybackRecords, tm).result, WithMint(buybackRecords, tm))
       /\ NewestFirst(getBuybackRecords(buybackRecords, tm).result)
       /\ ListsAll(getCreatorRewards(creatorRewards, tm).result, WithMint(creatorRewards, tm))
       /\ NewestFirst(getCreatorRewards(creatorRewards, tm).result)
  /\ \A type \in LogTypes, limit \in StoreLimits :
       LET listed == getActivityLogsByType(activityLogs, type, limit).result
       IN  /\ ListsNewest(listed, {l \in Stored(activityLogs) : l.type = type}, limit)
           /\ NewestFirst(listed)
  /\ \A limit \in StoreLimits :
       LET listed == getAirdrops(airdrops, limit).result
       IN  ListsNewest(listed, Stored(airdrops), limit) /\ NewestFirst(listed)
  /\ \A limit \in StoreLimits, offset \in {0, 1} :
       LET listed == getActivityLogs(activityLogs, limit, offset).result
           skipped == getActivityLogs(activityLogs, offset, 0).result
       IN  /\ NewestFirst(skipped \o listed)
           /\ ListsNewest(skipped, Stored(activityLogs), offset)
           /\ ListsNewest(listed, Stored(activityLogs) \ Range(skipped), limit)

\* two logs of one type made at different times: the limit, the offset and the
\* filter each cut something, and the listing order is not the Map's order
C15_Witness ==
  /\ Len(activityLogs) = 2
  /\ activityLogs[1].v.type = "burn" /\ activityLogs[2].v.type = "burn"
  /\ activityLogs[1].v.createdAt < activityLogs[2].v.createdAt
  /\ getActivityLogsByType(activityLogs, "burn", 1).result = <<activityLogs[2].v>>
  /\ getActivityLogsByType(activityLogs, "thought", 1).result = <<>>
  /\ getActivityLogs(activityLogs, ActivityLogsDefaultLimit, 0).result
       = <<activityLogs[2].v, activityLogs[1].v>>
  /\ getActivityLogs(activityLogs, ActivityLogsDefaultLimit, 1).result = <<activityLogs[1].v>>

(***************************************************************************)
(* Wallet endpoints (server/routes.ts)                                     *)
(***************************************************************************)
\* const { type = "temp", label } = req.body; the label is left out
WalletBodies == [type : {"treasury", "temp"}]

\* res.json(wallet): the stored row as the response
WalletResponseWhole(wallet) == Spread(wallet, [status |-> 200])

\* res.json({ id, publicKey, type, label, warning })
WalletResponse(wallet) ==
  [status |-> 200, id |-> wallet.id, publicKey |-> wallet.publicKey,
   type |-> wallet.type, warning |-> "Private key stored securely"]

\* POST /api/wallet/generate: no gateway call, the handler runs to its response.
\* The description of the log entry is a text built from `type` and is left out.
WalletGenerateRequest(r, body) ==
  /\ FreeSlot(r)
  /\ LET slot == [IdleSlot EXCEPT !.kind = "wallet", !.body = body]
         walletId == randomUUID
         logId == randomUUID + 1
         walletData == generateWallet(walletId)
         created == createWallet(wallets,
                      [publicKey |-> walletData.publicKey,
                       encryptedPrivateKey |-> walletData.privateKey,
                       type |-> body.type], walletId, now)
         wallet == MapGet(created, walletId)
     IN  /\ wallets' = created
         /\ activityLogs' = createActivityLog(activityLogs,
              [type |-> "wallet", action |-> "generate",
               metadata |-> [publicKey |-> wallet.publicKey, type |-> body.type],
               status |-> "success"], logId, now)
         /\ reqs' = [reqs EXCEPT ![r] =
              Respond([slot EXCEPT !.recId = walletId, !.logId = logId],
                      WalletResponse(wallet))]
  /\ UNCHANGED <<tokens, treasuryState, holderSnapshots, airdrops, creatorRewards,
                 burnRecords, buybackRecords,
                 now>>

\* what getSolBalance can return; 0 is also its answer when the RPC call throws
SolBalances == Amounts

\* GET /api/wallet/treasury up to the balance call
TreasuryWalletRequest(r) ==
  /\ FreeSlot(r)
  /\ LET slot == [IdleSlot EXCEPT !.kind = "treasury"]
         wallet == getTreasuryWallet(wallets)
     IN  reqs' = [reqs EXCEPT ![r] =
           IF wallet = <<>>
           THEN Respond(slot, [status |-> 404, error |-> "Treasury wallet not found"])
           ELSE [slot EXCEPT !.pc = "balance", !.body = [wallet |-> wallet[1]]]]
  /\ UNCHANGED <<tables, now>>

\* GET /api/wallet/treasury once getSolBalance has answered
TreasuryWalletReturn(r, solBalance) ==
  /\ reqs[r].kind = "treasury"
  /\ reqs[r].pc = "balance"
  /\ reqs' = [reqs EXCEPT ![r] =
       Respond(reqs[r], [status |-> 200, publicKey |-> reqs[r].body.wallet.publicKey,
                         solBalance |-> solBalance])]
  /\ UNCHANGED <<tables, now>>

\* the wallet endpoints next to the operation endpoints that sign with the key
WalletNext ==
  \/ \E r \in Requests, body \in WalletBodies : WalletGenerateRequest(r, body)
  \/ \E r \in Requests : TreasuryWalletRequest(r)
  \/ \E r \in Requests, solBalance \in SolBalances : TreasuryWalletReturn(r, solBalance)
  \/ Next

SpecWallet == Init /\ [][WalletNext]_vars

\* the private keys the store holds
StoredPrivateKeys == {w.encryptedPrivateKey : w \in Range(MapValues(wallets))}

\* the fields of a payload that carry key material
KeyFields == {"publicKey", "privateKey", "encryptedPrivateKey", "secretKey"}

\* a payload carries a stored private key in one of its key fields
Exposes(payload) ==
  \E f \in DOMAIN payload \cap KeyFields : payload[f] \in StoredPrivateKeys

(***************************************************************************)
(* C16: no response body of any request and no activity log entry, its     *)
(* metadata included, carries the private key of a stored wallet: the key  *)
(* is written to the wallet row and handed to the gateway, nowhere else.   *)
(***************************************************************************)
C16_PrivateKeyStaysInStore ==
  /\ \A r \in Requests : ~Exposes(reqs[r].resp)
  /\ \A log \in Range(MapValues(activityLogs)) :
       /\ ~Exposes(log)
       /\ "metadata" \in DOMAIN log => ~Exposes(log.metadata)

\* a wallet was generated by one request and the treasury wallet was read by another
C16_Witness ==
  /\ reqs[1].kind = "wallet" /\ reqs[1].pc = "done" /\ reqs[1].body.type = "treasury"
  /\ reqs[1].resp.publicKey = MapGet(wallets, reqs[1].recId).publicKey
  /\ MapGet(wallets, reqs[1].recId).encryptedPrivateKey \in StoredPrivateKeys
  /\ reqs[2].kind = "treasury" /\ reqs[2].pc = "done" /\ reqs[2].resp.status = 200
  /\ \E log \in Range(MapValues(activityLogs)) :
       log.type = "wallet" /\ log.metadata.publicKey = reqs[1].resp.publicKey

\* the single-call request r has closed its record: the gateway call has returned
ClosedSingleCall(r) ==
  /\ reqs[r].kind \in {"burn", "buyback", "claim"}
  /\ reqs[r].pc = "done" /\ reqs[r].recId # 0
  /\ reqs[r].results # <<>>

\* the text fields a stored record or an audit entry can hold a failure reason in
ReasonFields == {"error", "errorMessage", "reason", "description", "txSignature",
                 "claimTxSignature"}

\* a stored row holds the text in one of its reason fields, or in its metadata
HoldsText(row, text) ==
  \/ \E f \in DOMAIN row \cap ReasonFields : row[f] = text
  \/ /\ "metadata" \in DOMAIN row
     /\ \E f \in DOMAIN row.metadata \cap ReasonFields : row.metadata[f] = text

(***************************************************************************)
(* C17: when burn, buyback or claim has closed its record, a successful    *)
(* gateway call left its settlement signature in the record, and a failed  *)
(* one left its error string in the record or in the audit entry.          *)
(***************************************************************************)
C17_FailureReasonStored ==
  \A r \in Requests : ClosedSingleCall(r) =>
    LET result == reqs[r].results[1]
    IN  IF result.success
        THEN HoldsText(RecordOf(r), result.txSignature)
        ELSE HoldsText(RecordOf(r), result.error) \/ HoldsText(LogOf(r), result.error)

(***************************************************************************)
(* The batch loop on an event loop that runs every ready continuation      *)
(***************************************************************************)
\* The 100 ms timer of the loop always fires, so DelayElapsed is weakly fair.
\* `await sendAndConfirmTransaction(...)` is resumed only when the RPC node
\* answers: transferSol and transferToken set no timer of their own, so nothing
\* obliges TransferReturn to happen.
SpecStuckGateway ==
  /\ Init
  /\ [][AirdropStep]_vars
  /\ \A r \in Requests : WF_vars(DelayElapsed(r))

\* the transfer of request r for its i-th recipient is in flight
InFlight(r, i) ==
  /\ reqs[r].kind = "airdrop" /\ reqs[r].pc = "transfer"
  /\ Len(reqs[r].results) = i - 1

(***************************************************************************)
(* C18: whether or not the gateway answers, a transfer in flight leads to   *)
(* a batch in which every recipient has an outcome and whose airdrop       *)
(* record has reached a terminal status.                                   *)
(***************************************************************************)
C18_StuckCallCannotStall ==
  \A r \in Requests : \A i \in 1..MaxRecipients :
    InFlight(r, i) ~>
      /\ ClosedAirdrop(r)
      /\ Len(reqs[r].results) = Len(reqs[r].body.recipients)
      /\ RecordOf(r).status \in TerminalStatuses

\* the statuses a stored operation record can leave
OpenStatuses == {"pending", "processing"}

\* every record of the table m that is past its open status is the same in `after`
SettledKept(m, after) ==
  \A i \in 1..Len(m) :
    m[i].v.status \notin OpenStatuses => Len(after) >= i /\ after[i] = m[i]

(***************************************************************************)
(* C19: under any interleaving of requests to the operation endpoints, a   *)
(* stored airdrop, burn, buyback or reward record that has left `pending`  *)
(* or `processing` is never written again: its status, its signature and   *)
(* its outcome sequence stay as they were closed.                          *)
(***************************************************************************)
C19_MonotonicStatus ==
  [][/\ SettledKept(airdrops, airdrops')
     /\ SettledKept(burnRecords, burnRecords')
     /\ SettledKept(buybackRecords, buybackRecords')
     /\ SettledKept(creatorRewards, creatorRewards')]_vars

\* two burn requests have run side by side and closed their records differently
C19_Witness ==
  /\ reqs[1].kind = "burn" /\ reqs[2].kind = "burn"
  /\ Closed(1) /\ Closed(2)
  /\ reqs[1].recId # reqs[2].recId
  /\ RecordOf(1).status = "success" /\ RecordOf(1).txSignature = Signatures[1][1]
  /\ RecordOf(2).status = "failed"

\* request r created an airdrop record and its activity log entry
OpenedAirdrop(r) == reqs[r].kind = "airdrop" /\ reqs[r].recId # 0

(***************************************************************************)
(* C20: when a POST /api/airdrop request that opened a distribution has    *)
(* ended, the airdrop record it created in `processing` and the activity   *)
(* log entry it created in `pending` have both reached a terminal status.  *)
(* Every gateway call of an ended request has returned.                    *)
(***************************************************************************)
C20_OpenedIsClosed ==
  \A r \in Requests : (OpenedAirdrop(r) /\ reqs[r].pc = "done") =>
    /\ RecordOf(r).status \in TerminalStatuses
    /\ LogOf(r).status \in TerminalStatuses

(***************************************************************************)
(* POST /api/token/deploy and GET /api/treasury (server/routes.ts)         *)
(***************************************************************************)
DeployBodies == [name : {"Grok", ""}, symbol : {"GRK"}]

\* a handler that submits the deployment without opening its log entry
DeployRequestUnlogged(r, body) ==
  /\ FreeSlot(r)
  /\ LET slot == [IdleSlot EXCEPT !.kind = "deploy", !.body = body]
     IN  reqs' = [reqs EXCEPT ![r] =
           IF ~deployTokenRequestSchema(body)
           THEN Respond(slot, [status |-> 400, error |-> "validation"])
           ELSE IF getTreasuryWallet(wallets) = <<>>
           THEN Respond(slot, [status |-> 400, error |-> "Treasury wallet not configured"])
           ELSE [slot EXCEPT !.pc = "deploy", !.attempts = 1]]
  /\ UNCHANGED <<tables, now>>

\* POST /api/token/deploy up to the call of deployToken
DeployRequest(r, body) ==
  /\ FreeSlot(r)
  /\ LET slot == [IdleSlot EXCEPT !.kind = "deploy", !.body = body]
         logId == randomUUID
     IN  IF ~deployTokenRequestSchema(body)
         THEN /\ reqs' = [reqs EXCEPT ![r] =
                   Respond(slot, [status |-> 400, error |-> "validation"])]
              /\ UNCHANGED activityLogs
         ELSE IF getTreasuryWallet(wallets) = <<>>
         THEN /\ reqs' = [reqs EXCEPT ![r] =
                   Respond(slot, [status |-> 400, error |-> "Treasury wallet not configured"])]
              /\ UNCHANGED activityLogs
         ELSE /\ activityLogs' = createActivityLog(activityLogs,
                   [type |-> "deploy", action |-> "deploy_token", status |-> "pending"],
                   logId, now)
              /\ reqs' = [reqs EXCEPT ![r] =
                   [slot EXCEPT !.pc = "deploy", !.logId = logId, !.attempts = 1]]
  /\ UNCHANGED <<wallets, tokens, treasuryState, holderSnapshots, airdrops,
                 creatorRewards, burnRecords, buybackRecords, now>>

\* a handler that records the token before it looks at the result
DeployReturnEager(r, ok) ==
  /\ reqs[r].kind = "deploy" /\ reqs[r].pc = "deploy"
  /\ LET slot == reqs[r]
         result == deployToken(Network(r, slot.attempts, ok), r)
         tokenId == randomUUID
         stateId == randomUUID + 1
         treasuryWallet == getTreasuryWallet(wallets)[1]
     IN  /\ tokens' = createToken(tokens,
              [mint |-> result.mint, name |-> slot.body.name,
               symbol |-> slot.body.symbol,
               creatorWallet |-> treasuryWallet.publicKey,
               deployTxSignature |-> result.signature, status |-> "active"],
              tokenId, now)
         /\ IF result.success /\ result.mint # None
            THEN /\ treasuryState' = updateTreasuryState(treasuryState,
                      [tokenMint |-> result.mint], stateId, now)
                 /\ activityLogs' = updateActivityLog(activityLogs, slot.logId,
                      [status |-> "success", txSignature |-> result.signature,
                       tokenMint |-> result.mint])
                 /\ reqs' = [reqs EXCEPT ![r] =
                      Respond([slot EXCEPT !.recId = tokenId, !.results = <<result>>],
                              [status |-> 200, success |-> TRUE, mint |-> result.mint,
                               txSignature |-> result.signature])]
            ELSE /\ activityLogs' = updateActivityLog(activityLogs, slot.logId,
                      [status |-> "failed", metadata |-> [error |-> result.error]])
                 /\ reqs' = [reqs EXCEPT ![r] =
                      Respond([slot EXCEPT !.results = <<result>>],
                              [status |-> 500, error |-> result.error])]
                 /\ UNCHANGED treasuryState
  /\ UNCHANGED <<wallets, holderSnapshots, airdrops, creatorRewards, burnRecords,
                 buybackRecords, now>>

\* POST /api/token/deploy once deployToken has returned
DeployReturn(r, ok) ==
  /\ reqs[r].kind = "deploy" /\ reqs[r].pc = "deploy"
  /\ LET slot == reqs[r]
         result == deployToken(Network(r, slot.attempts, ok), r)
         tokenId == randomUUID
         stateId == randomUUID + 1
         treasuryWallet == getTreasuryWallet(wallets)[1]
     IN  IF result.success /\ result.mint # None
         THEN /\ tokens' = createToken(tokens,
                   [mint |-> result.mint, name |-> slot.body.name,
                    symbol |-> slot.body.symbol,
                    creatorWallet |-> treasuryWallet.publicKey,
                    deployTxSignature |-> result.signature, status |-> "active"],
                   tokenId, now)
              /\ treasuryState' = updateTreasuryState(treasuryState,
                   [tokenMint |-> result.mint], stateId, now)
              /\ activityLogs' = updateActivityLog(activityLogs, slot.logId,
                   [status |-> "success", txSignature |-> result.signature,
                    tokenMint |-> result.mint])
              /\ reqs' = [reqs EXCEPT ![r] =
                   Respond([slot EXCEPT !.recId = tokenId, !.results = <<result>>],
                           [status |-> 200, success |-> TRUE, mint |-> result.mint,
                            txSignature |-> result.signature])]
         ELSE /\ activityLogs' = updateActivityLog(activityLogs, slot.logId,
                   [status |-> "failed", metadata |-> [error |-> result.error]])
              /\ reqs' = [reqs EXCEPT ![r] =
                   Respond([slot EXCEPT !.results = <<result>>],
                           [status |-> 500, error |-> result.error])]
              /\ UNCHANGED <<tokens, treasuryState>>
  /\ UNCHANGED <<wallets, holderSnapshots, airdrops, creatorRewards, burnRecords,
                 buybackRecords, now>>

\* what getTokenBalance can return; 0 is also its answer when the RPC call throws
TokenBalances == Amounts

\* the write and the response GET /api/treasury ends with
TreasuryRefresh(r, slot, solBalance, tokenBalance) ==
  /\ treasuryState' = updateTreasuryState(treasuryState,
       [solBalance |-> NumToString(solBalance),
        tokenBalance |-> NumToString(tokenBalance),
        tokenMint |-> slot.body.tokenMint], randomUUID, now)
  /\ reqs' = [reqs EXCEPT ![r] =
       Respond(slot, [status |-> 200, publicKey |-> slot.body.wallet.publicKey,
                      solBalance |-> NumToString(solBalance),
                      tokenBalance |-> NumToString(tokenBalance),
                      tokenMint |-> slot.body.tokenMint])]

\* GET /api/treasury up to the call of getSolBalance
TreasuryRequest(r) ==
  /\ FreeSlot(r)
  /\ LET slot == [IdleSlot EXCEPT !.kind = "treasuryState"]
         treasuryWallet == getTreasuryWallet(wallets)
         activeToken == getActiveToken(tokens)
     IN  reqs' = [reqs EXCEPT ![r] =
           IF treasuryWallet = <<>>
           THEN Respond(slot, [status |-> 404, error |-> "Treasury not configured"])
           ELSE [slot EXCEPT !.pc = "solBalance",
                   !.body = [wallet |-> treasuryWallet[1],
                             tokenMint |-> IF activeToken = <<>> THEN None
                                           ELSE activeToken[1].mint,
                             solBalance |-> 0]]]
  /\ UNCHANGED <<tables, now>>

\* getSolBalance has answered: getTokenBalance is called when a token is active
TreasurySolBalanceReturn(r, solBalance) ==
  /\ reqs[r].kind = "treasuryState" /\ reqs[r].pc = "solBalance"
  /\ LET slot == reqs[r]
     IN  IF slot.body.tokenMint # None
         THEN /\ reqs' = [reqs EXCEPT ![r] =
                   [slot EXCEPT !.pc = "tokenBalance", !.body.solBalance = solBalance]]
              /\ UNCHANGED treasuryState
         ELSE TreasuryRefresh(r, slot, solBalance, 0)
  /\ UNCHANGED <<wallets, tokens, holderSnapshots, activityLogs, airdrops,
                 creatorRewards, burnRecords, buybackRecords, now>>

\* getTokenBalance has answered
TreasuryTokenBalanceReturn(r, tokenBalance) ==
  /\ reqs[r].kind = "treasuryState" /\ reqs[r].pc = "tokenBalance"
  /\ TreasuryRefresh(r, reqs[r], reqs[r].body.solBalance, tokenBalance)
  /\ UNCHANGED <<wallets, tokens, holderSnapshots, activityLogs, airdrops,
                 creatorRewards, burnRecords, buybackRecords, now>>

(***************************************************************************)
(* The handlers over a storage whose create methods may throw.  IStorage   *)
(* promises nothing about faults; a rejected `await storage.createX(...)`  *)
(* leaves the handler through asyncHandler's catch, which answers 500.     *)
(* `recordStored` tells which create threw: FALSE the first one (nothing   *)
(* is stored), TRUE the createActivityLog that follows the record.         *)
(***************************************************************************)
\* asyncHandler: res.status(500).json({ error: error.message })
HandlerThrew(slot) == Respond(slot, [status |-> 500, error |-> "storage fault"])

AirdropStorageFault(r, body, recordStored) ==
  /\ FreeSlot(r)
  /\ airdropRequestSchema(body)
  /\ getTreasuryWallet(wallets) # <<>>
  /\ LET slot == [IdleSlot EXCEPT !.kind = "airdrop", !.body = body]
     IN  IF recordStored
         THEN /\ airdrops' = createAirdrop(airdrops, NewAirdrop(body), randomUUID, now)
              /\ reqs' = [reqs EXCEPT ![r] = HandlerThrew([slot EXCEPT !.recId = randomUUID])]
         ELSE /\ reqs' = [reqs EXCEPT ![r] = HandlerThrew(slot)]
              /\ UNCHANGED airdrops
  /\ UNCHANGED <<wallets, tokens, treasuryState, holderSnapshots, activityLogs,
                 creatorRewards, burnRecords, buybackRecords, now>>

BurnStorageFault(r, body, recordStored) ==
  /\ FreeSlot(r)
  /\ burnRequestSchema(body)
  /\ getTreasuryWallet(wallets) # <<>>
  /\ LET slot == [IdleSlot EXCEPT !.kind = "burn", !.body = body]
     IN  IF recordStored
         THEN /\ burnRecords' = createBurnRecord(burnRecords,
                   [tokenMint |-> body.tokenMint, amount |-> NumToString(body.amount),
                    status |-> "pending"], randomUUID, now)
              /\ reqs' = [reqs EXCEPT ![r] = HandlerThrew([slot EXCEPT !.recId = randomUUID])]
         ELSE /\ reqs' = [reqs EXCEPT ![r] = HandlerThrew(slot)]
              /\ UNCHANGED burnRecords
  /\ UNCHANGED <<wallets, tokens, treasuryState, holderSnapshots, activityLogs, airdrops,
                 creatorRewards, buybackRecords, now>>

BuybackStorageFault(r, body, recordStored) ==
  /\ FreeSlot(r)
  /\ buybackRequestSchema(body)
  /\ getTreasuryWallet(wallets) # <<>>
  /\ LET slot == [IdleSlot EXCEPT !.kind = "buyback", !.body = body]
     IN  IF recordStored
         THEN /\ buybackRecords' = createBuybackRecord(buybackRecords,
                   [tokenMint |-> body.tokenMint, solSpent |-> NumToString(body.solAmount),
                    status |-> "pending"], randomUUID, now)
              /\ reqs' = [reqs EXCEPT ![r] = HandlerThrew([slot EXCEPT !.recId = randomUUID])]
         ELSE /\ reqs' = [reqs EXCEPT ![r] = HandlerThrew(slot)]
              /\ UNCHANGED buybackRecords
  /\ UNCHANGED <<wallets, tokens, treasuryState, holderSnapshots, activityLogs, airdrops,
                 creatorRewards, burnRecords, now>>

\* the claim handler opens its record once getPendingRewards has returned
ClaimStorageFault(r, pendingAmount, recordStored) ==
  /\ reqs[r].kind = "claim" /\ reqs[r].pc = "pending"
  /\ LET slot == [reqs[r] EXCEPT !.pendingAmount = pendingAmount]
     IN  IF recordStored
         THEN /\ creatorRewards' = createCreatorReward(creatorRewards,
                   [tokenMint |-> slot.body.tokenMint,
                    amount |-> NumToString(pendingAmount), status |-> "pending"],
                   randomUUID, now)
              /\ reqs' = [reqs EXCEPT ![r] = HandlerThrew([slot EXCEPT !.recId = randomUUID])]
         ELSE /\ reqs' = [reqs EXCEPT ![r] = HandlerThrew(slot)]
              /\ UNCHANGED creatorRewards
  /\ UNCHANGED <<wallets, tokens, treasuryState, holderSnapshots, activityLogs, airdrops,
                 burnRecords, buybackRecords, now>>

\* deploy opens a log entry only
DeployStorageFault(r, body) ==
  /\ FreeSlot(r)
  /\ deployTokenRequestSchema(body)
  /\ getTreasuryWallet(wallets) # <<>>
  /\ reqs' = [reqs EXCEPT ![r] =
       HandlerThrew([IdleSlot EXCEPT !.kind = "deploy", !.body = body])]
  /\ UNCHANGED <<tables, now>>

StorageFault ==
  \/ \E r \in Requests : FreeSlot(r) /\
       \E asset \in AirdropAssets, rs \in RecipientLists, sn \in SnapshotChoices,
          recordStored \in BOOLEAN :
         AirdropStorageFault(r, AirdropBody(asset, rs, sn), recordStored)
  \/ \E r \in Requests, body \in BurnBodies, recordStored \in BOOLEAN :
       BurnStorageFault(r, body, recordStored)
  \/ \E r \in Requests, body \in BuybackBodies, recordStored \in BOOLEAN :
       BuybackStorageFault(r, body, recordStored)
  \/ \E r \in Requests, amt \in PendingAmounts, recordStored \in BOOLEAN :
       ClaimStorageFault(r, amt, recordStored)
  \/ \E r \in Requests, body \in DeployBodies : DeployStorageFault(r, body)

\* every endpoint of the API that the model covers
ApiNext ==
  \/ WalletNext
  \/ \E r \in Requests, body \in DeployBodies : DeployRequest(r, body)
  \/ \E r \in Requests, ok \in BOOLEAN : DeployReturn(r, ok)
  \/ \E r \in Requests : TreasuryRequest(r)
  \/ \E r \in Requests, solBalance \in SolBalances : TreasurySolBalanceReturn(r, solBalance)
  \/ \E r \in Requests, tokenBalance \in TokenBalances :
       TreasuryTokenBalanceReturn(r, tokenBalance)

SpecApi == Init /\ [][ApiNext]_vars

\* the operation endpoints over a storage that may throw
FaultNext ==
  \/ Next
  \/ \E r \in Requests, body \in DeployBodies : DeployRequest(r, body)
  \/ \E r \in Requests, ok \in BOOLEAN : DeployReturn(r, ok)
  \/ StorageFault

SpecFault == Init /\ [][FaultNext]_vars

\* the audit trail of a handler is in the store: its log entry, and its operation
\* record in the table of its kind; deploy has no record
AuditTrail(slot, logs, air, burn, buy, rew) ==
  /\ MapHas(logs, slot.logId)
  /\ CASE slot.kind = "airdrop" -> MapHas(air, slot.recId)
       [] slot.kind = "burn" -> MapHas(burn, slot.recId)
       [] slot.kind = "buyback" -> MapHas(buy, slot.recId)
       [] slot.kind = "claim" -> MapHas(rew, slot.recId)
       [] OTHER -> TRUE

\* a create of the handler of request r threw
StorageFaulted(r) == reqs[r].pc = "done" /\ Field(reqs[r].resp, "error") = "storage fault"

\* no request that met a storage fault has called the gateway, and it answered 5xx
C21_FaultStopsRequest ==
  \A r \in Requests : StorageFaulted(r) =>
    /\ reqs[r].resp.status >= 500
    /\ reqs[r].attempts = 0 /\ reqs[r].results = <<>>

\* a step that submits a state-changing gateway call leaves the audit trail stored
C21_CallHasAuditTrail ==
  \A r \in Requests :
    reqs'[r].attempts > reqs[r].attempts =>
      /\ AuditTrail(reqs'[r], activityLogs', airdrops', burnRecords', buybackRecords',
                    creatorRewards')
      /\ reqs'[r].attempts = 1 =>
           MapGet(activityLogs', reqs'[r].logId).status = "pending"

(***************************************************************************)
(* C21: in burn, buyback, claim, deploy and airdrop the gateway call is    *)
(* submitted only with the pending activity log entry, and the operation   *)
(* record where the kind has one, already stored; a request whose create   *)
(* threw never calls the gateway and ends with a 5xx response.             *)
(***************************************************************************)
C21_AuditTrailFirst == []C21_FaultStopsRequest /\ [][C21_CallHasAuditTrail]_vars

\* a deployment is in flight with its log entry pending, next to a burn request
\* that stored its record and ended at the createActivityLog that threw
C21_Witness ==
  /\ reqs[1].kind = "deploy" /\ reqs[1].pc = "deploy" /\ reqs[1].attempts = 1
  /\ LogOf(1).status = "pending"
  /\ reqs[2].kind = "burn" /\ StorageFaulted(2)
  /\ MapHas(burnRecords, reqs[2].recId)

\* the endpoints that change state on the ledger network
OperationKinds == {"deploy", "airdrop", "burn", "buyback", "claim"}

\* no stored wallet is a treasury wallet
NoTreasury == \A i \in 1..Len(wallets) : wallets[i].v.type # "treasury"

(***************************************************************************)
(* C22: while no treasury wallet is stored, a request to deploy, airdrop,  *)
(* burn, buyback or claim ends at once with an error response: it stores   *)
(* no operation record and no activity log entry and submits no gateway    *)
(* call.                                                                   *)
(***************************************************************************)
C22_NoTreasuryNoWrite ==
  [][\A r \in Requests :
       (/\ NoTreasury
        /\ reqs[r].pc = "idle"
        /\ reqs'[r].kind \in OperationKinds)
       => /\ reqs'[r].pc = "done"
          /\ reqs'[r].resp.status >= 400
          /\ reqs'[r].attempts = 0
          /\ UNCHANGED tables]_vars

\* a temp wallet is stored, and a well-formed burn request was turned away
C22_Witness ==
  /\ NoTreasury /\ wallets # <<>>
  /\ reqs[2].kind = "burn" /\ reqs[2].pc = "done"
  /\ burnRequestSchema(reqs[2].body)
  /\ reqs[2].resp.error = "Treasury wallet not configured"
  /\ burnRecords = <<>> /\ Len(activityLogs) = 1

\* the keys of the rows a step rewrote, and of the rows it added
Rewritten(m, after) == {m[i].k : i \in {j \in 1..Len(m) : Len(after) < j \/ after[j] # m[j]}}
Added(m, after) == {after[i].k : i \in (Len(m) + 1)..Len(after)}

\* the requests whose handler took the step
Acting == {r \in Requests : reqs'[r] # reqs[r]}

\* a step rewrites a row of an operation table only on behalf of the request of
\* that kind which holds the row's id, and a row it adds becomes that request's
WrittenByOwner(kind, m, after) ==
  /\ \A k \in Rewritten(m, after) :
       \E r \in Acting : reqs[r].kind = kind /\ reqs[r].recId = k
  /\ \A k \in Added(m, after) :
       \E r \in Acting : reqs'[r].kind = kind /\ reqs'[r].recId = k /\ reqs[r].recId = 0

\* the same for the activity log, whose rows every kind of request opens
LogWrittenByOwner ==
  /\ \A k \in Rewritten(activityLogs, activityLogs') :
       \E r \in Acting : reqs[r].logId = k
  /\ \A k \in Added(activityLogs, activityLogs') :
       \E r \in Acting : reqs'[r].logId = k /\ reqs[r].logId = 0

\* a request keeps the ids it holds
OwnershipKept ==
  \A r \in Requests :
    /\ reqs[r].recId # 0 => reqs'[r].recId = reqs[r].recId
    /\ reqs[r].logId # 0 => reqs'[r].logId = reqs[r].logId

\* no row is held by two requests
C23_OneOwner ==
  \A r, q \in Requests : r # q =>
    /\ reqs[r].logId # 0 => reqs[r].logId # reqs[q].logId
    /\ reqs[r].recId # 0 => reqs[r].recId # reqs[q].recId

C23_OwnerWrites ==
  /\ Cardinality(Acting) <= 1
  /\ OwnershipKept
  /\ LogWrittenByOwner
  /\ WrittenByOwner("airdrop", airdrops, airdrops')
  /\ WrittenByOwner("burn", burnRecords, burnRecords')
  /\ WrittenByOwner("buyback", buybackRecords, buybackRecords')
  /\ WrittenByOwner("claim", creatorRewards, creatorRewards')

(***************************************************************************)
(* C23: under any interleaving of requests, a stored operation record or   *)
(* activity log entry is rewritten only by a step of the request that      *)
(* created it: the creating request alone holds its id, for good, and      *)
(* every update goes to an id the acting request holds.                    *)
(***************************************************************************)
C23_SingleWriter == []C23_OneOwner /\ [][C23_OwnerWrites]_vars

\* the second distribution was opened and closed while the first has a transfer in flight
C23_Witness ==
  /\ reqs[1].kind = "airdrop" /\ reqs[1].pc = "transfer"
  /\ RecordOf(1).status = "processing" /\ LogOf(1).status = "pending"
  /\ ClosedAirdrop(2) /\ RecordOf(2).status = "completed"
  /\ reqs[2].recId > reqs[1].logId

\* the transfers request r has submitted and not yet got back
TransfersInFlight(r) ==
  IF reqs[r].kind = "airdrop" THEN reqs[r].attempts - Len(reqs[r].results) ELSE 0

\* at most one transfer of a distribution is in flight, and one is exactly while the
\* loop awaits it
C24_OneInFlight ==
  \A r \in Requests : reqs[r].kind = "airdrop" =>
    /\ TransfersInFlight(r) \in {0, 1}
    /\ TransfersInFlight(r) = 1 <=> reqs[r].pc = "transfer"

\* a transfer is submitted only when every earlier one has its outcome appended, and
\* it is the transfer for the next recipient
C24_SubmitAfterReturn ==
  \A r \in Requests :
    (reqs'[r].kind = "airdrop" /\ reqs'[r].attempts > reqs[r].attempts) =>
      /\ reqs'[r].attempts = Len(reqs'[r].results) + 1
      /\ reqs[r].pc = "idle" \/ reqs[r].attempts = Len(reqs[r].results)

(***************************************************************************)
(* C24: within one distribution the transfer for recipient i+1 is          *)
(* submitted only after the transfer for recipient i has returned and its  *)
(* outcome has been appended; a distribution never has two transfers in    *)
(* flight.                                                                 *)
(***************************************************************************)
C24_SequentialTransfers == []C24_OneInFlight /\ [][C24_SubmitAfterReturn]_vars

\* the second transfer of a distribution is in flight, the first outcome is appended
C24_Witness ==
  \E r \in Requests :
    /\ reqs[r].kind = "airdrop" /\ reqs[r].pc = "transfer"
    /\ reqs[r].attempts = 2 /\ Len(reqs[r].results) = 1
    /\ reqs[r].results[1].wallet = reqs[r].body.recipients[1].wallet

\* request r awaits a gateway call that the treasury wallet has signed
SignedCallInFlight(r) ==
  \/ reqs[r].kind = "airdrop" /\ reqs[r].pc = "transfer"
  \/ reqs[r].kind = "burn" /\ reqs[r].pc = "burn"
  \/ reqs[r].kind = "buyback" /\ reqs[r].pc = "buyback"
  \/ reqs[r].kind = "claim" /\ reqs[r].pc = "claim"

(***************************************************************************)
(* C25: across all requests, at most one transfer, burn, buyback or claim  *)
(* signed by the treasury wallet is in flight at any time.                 *)
(***************************************************************************)
C25_OneSignedCallInFlight ==
  Cardinality({r \in Requests : SignedCallInFlight(r)}) <= 1

\* the endpoints that move funds of a deployed token
FundKinds == {"airdrop", "burn", "buyback", "claim"}

(***************************************************************************)
(* C26: no step of an airdrop, burn, buyback or claim request, from its    *)
(* start to its response and whatever the gateway answers, changes the     *)
(* stored treasury state (solBalance, tokenBalance, tokenMint,             *)
(* lastUpdated).                                                           *)
(***************************************************************************)
C26_TreasuryStateUntouched ==
  [][(\E r \in Acting : reqs'[r].kind \in FundKinds) => treasuryState' = treasuryState]_vars

\* GET /api/treasury has filled the cache, and a distribution that ran beside it has
\* closed as `partial` with the cached balances as they were
C26_Witness ==
  /\ reqs[1].kind = "treasuryState" /\ Ended(1, 200)
  /\ treasuryState # <<>>
  /\ treasuryState[1].solBalance = reqs[1].resp.solBalance
  /\ treasuryState[1].solBalance = "5"
  /\ ClosedAirdrop(2) /\ RecordOf(2).status = "partial"

(***************************************************************************)
(* C27: a stored holder snapshot is never changed: every step of every     *)
(* request keeps each stored snapshot, with its holder list, holderCount,  *)
(* totalSupplyHeld, tokenMint and createdAt, exactly as it was created.    *)
(***************************************************************************)
C27_SnapshotsImmutable ==
  [][\A i \in 1..Len(holderSnapshots) :
       /\ Len(holderSnapshots') >= i
       /\ holderSnapshots'[i] = holderSnapshots[i]]_vars

\* a snapshot was taken, and a second snapshot request for the same token has
\* stored its own next to it
C27_Witness ==
  /\ reqs[1].kind = "snapshot" /\ Ended(1, 200)
  /\ reqs[2].kind = "snapshot" /\ Ended(2, 200)
  /\ Len(holderSnapshots) = 2
  /\ holderSnapshots[1].v.tokenMint = holderSnapshots[2].v.tokenMint
  /\ holderSnapshots[1].v.holderCount # holderSnapshots[2].v.holderCount

\* the listed balances of a holder list, added up
BalanceSum(holders) ==
  SumFrom([i \in 1..Len(holders) |-> [amount |-> ParseNum(holders[i].balance)]], 1)

\* every stored snapshot lists at least one holder and its counts agree with its list
C28_StoredSnapshotsListed ==
  \A i \in 1..Len(holderSnapshots) :
    LET snapshot == holderSnapshots[i].v
    IN  /\ snapshot.holderCount >= 1
        /\ snapshot.holderCount = Len(snapshot.snapshotData)
        /\ snapshot.totalSupplyHeld = NumToString(BalanceSum(snapshot.snapshotData))

\* a snapshot request that got no holders has answered with an error, holds no
\* snapshot and has its log entry closed as `failed`; one that got holders holds one
C28_EmptyIsAnError ==
  \A r \in Requests : (reqs[r].kind = "snapshot" /\ reqs[r].pc = "done" /\ reqs[r].logId # 0) =>
    IF reqs[r].recId = 0
    THEN reqs[r].resp.status >= 400 /\ LogOf(r).status = "failed"
    ELSE /\ reqs[r].resp.status = 200 /\ LogOf(r).status = "success"
         /\ MapHas(holderSnapshots, reqs[r].recId)

\* the step that answers a snapshot request with an error stores nothing
C28_ErrorStoresNothing ==
  \A r \in Requests :
    (reqs'[r].kind = "snapshot" /\ reqs'[r] # reqs[r] /\ reqs'[r].resp.status >= 400)
      => holderSnapshots' = holderSnapshots

(***************************************************************************)
(* C28: when the holder service returns no holders, POST /api/snapshot     *)
(* answers with an error, stores no snapshot and closes its log entry as   *)
(* `failed`; every stored snapshot has holderCount >= 1, holderCount equal *)
(* to the length of its holder list and totalSupplyHeld equal to the sum   *)
(* of the listed balances.                                                 *)
(***************************************************************************)
C28_NoEmptySnapshot ==
  /\ []C28_StoredSnapshotsListed
  /\ []C28_EmptyIsAnError
  /\ [][C28_ErrorStoresNothing]_vars

\* one snapshot request got no holders, the other stored a list of two
C28_Witness ==
  /\ reqs[1].kind = "snapshot" /\ Ended(1, 404) /\ LogOf(1).status = "failed"
  /\ reqs[2].kind = "snapshot" /\ Ended(2, 200)
  /\ Len(holderSnapshots) = 1
  /\ holderSnapshots[1].v.holderCount = 2
  /\ holderSnapshots[1].v.totalSupplyHeld = NumToString(10)

\* the status a record of this kind is closed with when the gateway call succeeded
SuccessStatus(kind) == IF kind = "claim" THEN "claimed" ELSE "success"

\* the settlement signature a record of this kind stores
StoredSignature(kind, rec) ==
  IF kind = "claim" THEN rec.claimTxSignature ELSE rec.txSignature

\* the response of request r reports success and carries the stored signature
AnswersSuccess(r) ==
  /\ reqs[r].resp.status = 200
  /\ "success" \in DOMAIN reqs[r].resp /\ reqs[r].resp.success
  /\ reqs[r].resp.txSignature # None
  /\ reqs[r].resp.txSignature = StoredSignature(reqs[r].kind, RecordOf(r))

\* the response of request r is an error that carries the gateway's error string
AnswersError(r) ==
  /\ reqs[r].resp.status >= 400
  /\ "error" \in DOMAIN reqs[r].resp
  /\ reqs[r].resp.error = reqs[r].results[1].error
  /\ reqs[r].resp.error # None

(***************************************************************************)
(* C29: a burn, buyback or claim request that has closed its record        *)
(* answered with success, carrying the settlement signature, if and only   *)
(* if the record ended in the successful status of its kind, and answered  *)
(* with an error carrying the gateway's error string if and only if the    *)
(* record ended in `failed`.                                               *)
(***************************************************************************)
C29_ResponseAgreesWithLedger ==
  \A r \in Requests : ClosedSingleCall(r) =>
    /\ RecordOf(r).status \in {SuccessStatus(reqs[r].kind), "failed"}
    /\ AnswersSuccess(r) <=> RecordOf(r).status = SuccessStatus(reqs[r].kind)
    /\ AnswersError(r) <=> RecordOf(r).status = "failed"

\* a buyback answered with its signature next to a claim that answered with the
\* gateway's error
C29_Witness ==
  /\ reqs[1].kind = "buyback" /\ ClosedSingleCall(1) /\ AnswersSuccess(1)
  /\ RecordOf(1).txSignature = Signatures[1][1]
  /\ reqs[2].kind = "claim" /\ ClosedSingleCall(2) /\ AnswersError(2)
  /\ RecordOf(2).status = "failed" /\ reqs[2].resp.error = Errors[2][1]

(***************************************************************************)
(* GET /api/activity (server/routes.ts)                                    *)
(***************************************************************************)
ActivityRouteDefaultLimit == 100

\* parseInt(req.query.x as string) || fallback, for a query value of decimal digits;
\* the empty string stands for a parameter that is not given (parseInt gives NaN)
QueryInt(q, fallback) == IF ParseNum(q) = 0 THEN fallback ELSE ParseNum(q)

\* the response body of GET /api/activity?limit=..&offset=..
GetActivity(limitQuery, offsetQuery) ==
  getActivityLogs(activityLogs, QueryInt(limitQuery, ActivityRouteDefaultLimit),
                  QueryInt(offsetQuery, 0)).result

\* the page a caller asks for with limit L and offset O
Page(L, O) == GetActivity(NumToString(L), NumToString(O))

\* the pages of size L from offset O on, one after the other, up to n entries
RECURSIVE PagesFrom(_, _, _)
PagesFrom(L, O, n) == IF O >= n THEN <<>> ELSE Page(L, O) \o PagesFrom(L, O + L, n)

\* the whole log in the order of the listing
WholeLog == Page(Len(activityLogs) + 1, 0)

\* the page sizes and offsets a caller tries
PageSizes == 1..(MaxStoreCalls + 1)
PageOffsets == 0..(MaxStoreCalls + 1)

(***************************************************************************)
(* C30: for a caller-supplied limit L >= 1 and offset O >= 0,              *)
(* GET /api/activity returns exactly the entries at positions O .. O+L-1   *)
(* of the newest-first ordering of the whole log, fewer only where the log *)
(* ends; the consecutive pages of size L are disjoint and together are the *)
(* whole log, so no entry is out of reach.                                 *)
(***************************************************************************)
C30_ActivityPaging ==
  /\ ListsAll(WholeLog, Stored(activityLogs))
  /\ NewestFirst(WholeLog)
  /\ \A L \in PageSizes, O \in PageOffsets :
       Page(L, O) = SubSeq(WholeLog, O + 1, Min(O + L, Len(WholeLog)))
  /\ \A L \in PageSizes : PagesFrom(L, 0, Len(activityLogs)) = WholeLog

\* two entries made at different times: pages of one entry each, the newer first
C30_Witness ==
  /\ Len(activityLogs) = 2
  /\ activityLogs[1].v.createdAt < activityLogs[2].v.createdAt
  /\ Page(1, 0) = <<activityLogs[2].v>>
  /\ Page(1, 1) = <<activityLogs[1].v>>
  /\ Page(1, 2) = <<>>
  /\ Page(2, 0) = <<activityLogs[2].v, activityLogs[1].v>>

\* the step with which the deploy request r ends
DeployEnds(r) == reqs'[r].kind = "deploy" /\ reqs[r].pc # "done" /\ reqs'[r].pc = "done"

\* the store after a deployment that succeeded: one more token, the gateway's, and
\* the treasury state and the log entry of the request name it
DeployStored(r) ==
  LET result == reqs'[r].results[1]
      token == tokens'[Len(tokens')].v
      log == MapGet(activityLogs', reqs'[r].logId)
  IN  /\ Len(tokens') = Len(tokens) + 1
      /\ SubSeq(tokens', 1, Len(tokens)) = tokens
      /\ token.status = "active"
      /\ token.mint = result.mint /\ token.mint # None
      /\ token.deployTxSignature = result.signature
      /\ treasuryState' # <<>> /\ treasuryState'[1].tokenMint = result.mint
      /\ log.status = "success" /\ log.tokenMint = result.mint

\* the store after a deployment that did not succeed: no token, the treasury state
\* as it was, and the log entry, if one was opened, failed with the gateway's error
DeployRolledBack(r) ==
  /\ tokens' = tokens
  /\ treasuryState' = treasuryState
  /\ reqs'[r].logId # 0 =>
       LET log == MapGet(activityLogs', reqs'[r].logId)
       IN  /\ log.status = "failed"
           /\ log.metadata.error = reqs'[r].results[1].error
           /\ log.metadata.error # None

(***************************************************************************)
(* C31: the step that ends a deploy request either answers 200, having     *)
(* created exactly one token record with status `active` and the gateway's *)
(* mint and signature, set the treasury state's tokenMint to that mint and *)
(* closed the log entry as `success`; or it answers with an error, having  *)
(* created no token, left the treasury state unchanged and closed the log  *)
(* entry as `failed` with the error in its metadata.                       *)
(***************************************************************************)
C31_DeployAllOrNothing ==
  [][\A r \in Requests : DeployEnds(r) =>
       IF reqs'[r].resp.status = 200
       THEN reqs'[r].results[1].success /\ DeployStored(r)
       ELSE /\ reqs'[r].resp.status >= 400
            /\ reqs'[r].results # <<>> => ~reqs'[r].results[1].success
            /\ DeployRolledBack(r)]_vars

\* one deployment failed at the gateway, the other one went through
C31_Witness ==
  /\ reqs[1].kind = "deploy" /\ Ended(1, 500) /\ LogOf(1).status = "failed"
  /\ reqs[2].kind = "deploy" /\ Ended(2, 200) /\ LogOf(2).status = "success"
  /\ Len(tokens) = 1 /\ tokens[1].v.mint = DeployedMints[2]
  /\ treasuryState[1].tokenMint = DeployedMints[2]

(***************************************************************************)
(* C32: whenever the stored treasury state has a tokenMint, it is the mint *)
(* of the token getActiveToken returns.                                    *)
(***************************************************************************)
C32_TreasuryNamesActiveToken ==
  (treasuryState # <<>> /\ treasuryState[1].tokenMint # None) =>
    /\ getActiveToken(tokens) # <<>>
    /\ treasuryState[1].tokenMint = getActiveToken(tokens)[1].mint

\* the wallets of type `treasury`, in the order they were stored
TreasuryWallets == SelectSeq(MapValues(wallets), LAMBDA w : w.type = "treasury")

(***************************************************************************)
(* C33: once a wallet of type `treasury` is stored, no step of any request *)
(* changes the wallet getTreasuryWallet returns, further wallet            *)
(* generations of type `treasury` included; it is the treasury wallet      *)
(* that was stored first.                                                  *)
(***************************************************************************)
C33_TreasuryWalletStable ==
  /\ [](TreasuryWallets # <<>> => getTreasuryWallet(wallets) = <<TreasuryWallets[1]>>)
  /\ [](\A i \in 1..Len(tokens) :
          /\ TreasuryWallets # <<>>
          /\ tokens[i].v.creatorWallet = TreasuryWallets[1].publicKey)
  /\ [][getTreasuryWallet(wallets) # <<>> =>
          getTreasuryWallet(wallets') = getTreasuryWallet(wallets)]_vars

\* a second treasury wallet was generated and a token was deployed after it
C33_Witness ==
  /\ Len(TreasuryWallets) >= 2
  /\ getTreasuryWallet(wallets)[1].id = TreasuryWallets[1].id
  /\ TreasuryWallets[2].id # TreasuryWallets[1].id
  /\ \E i \in 1..Len(tokens) :
       /\ tokens[i].k > TreasuryWallets[2].id
       /\ tokens[i].v.creatorWallet = TreasuryWallets[1].publicKey

(***************************************************************************)
(* POST /api/agent/run-cycle (server/routes.ts).  The handler reads the    *)
(* treasury wallet and the active token, then awaits searchMentions,       *)
(* getMarketData (when a token is active), getSolBalance and               *)
(* getCommunityInsight, and writes one activity log entry.  The mentions   *)
(* and the market data only travel into the metadata and the response and  *)
(* are left out; the texts of the entry are left out as well.              *)
(***************************************************************************)
\* GrokDecision.action
Recommendations == {"burn", "buyback", "airdrop", "claim_rewards", "hold", "none"}

\* what getCommunityInsight can do: analyzeCommunitysentiment and getDecision catch
\* their own errors, the summary built after them (keyTopics.join) is not guarded
Insights ==
  [threw : {FALSE}, action : Recommendations] \cup {[threw |-> TRUE, action |-> None]}

\* the calls the cycle awaits, none of which is signed by the treasury wallet
CycleCalls == {"mentions", "marketData", "solBalance", "insight"}

RunCycleRequest(r) ==
  /\ FreeSlot(r)
  /\ LET slot == [IdleSlot EXCEPT !.kind = "cycle"]
         treasuryWallet == getTreasuryWallet(wallets)
         activeToken == getActiveToken(tokens)
     IN  reqs' = [reqs EXCEPT ![r] =
           IF treasuryWallet = <<>>
           THEN Respond(slot, [status |-> 400, error |-> "Treasury wallet not configured"])
           ELSE [slot EXCEPT !.pc = "mentions",
                   !.body = [wallet |-> treasuryWallet[1],
                             tokenMint |-> IF activeToken = <<>> THEN None
                                           ELSE activeToken[1].mint,
                             treasuryBalance |-> 0]]]
  /\ UNCHANGED <<tables, now>>

\* searchMentions has answered (it returns an empty result when the search fails)
RunCycleMentionsReturn(r) ==
  /\ reqs[r].kind = "cycle" /\ reqs[r].pc = "mentions"
  /\ reqs' = [reqs EXCEPT ![r].pc =
       IF reqs[r].body.tokenMint # None THEN "marketData" ELSE "solBalance"]
  /\ UNCHANGED <<tables, now>>

\* getMarketData has answered (null when the lookup fails)
RunCycleMarketDataReturn(r) ==
  /\ reqs[r].kind = "cycle" /\ reqs[r].pc = "marketData"
  /\ reqs' = [reqs EXCEPT ![r].pc = "solBalance"]
  /\ UNCHANGED <<tables, now>>

\* getSolBalance has answered
RunCycleSolBalanceReturn(r, solBalance) ==
  /\ reqs[r].kind = "cycle" /\ reqs[r].pc = "solBalance"
  /\ reqs' = [reqs EXCEPT ![r].pc = "insight", ![r].body.treasuryBalance = solBalance]
  /\ UNCHANGED <<tables, now>>

\* a cycle that carries out a recommended burn instead of reporting it
RunCycleInsightReturnActing(r, insight) ==
  /\ reqs[r].kind = "cycle" /\ reqs[r].pc = "insight"
  /\ LET slot == reqs[r]
         burnId == randomUUID
         logId == randomUUID + 1
     IN  IF insight.threw
         THEN /\ reqs' = [reqs EXCEPT ![r] = HandlerThrew(slot)]
              /\ UNCHANGED <<activityLogs, burnRecords>>
         ELSE /\ burnRecords' =
                   IF insight.action = "burn"
                   THEN createBurnRecord(burnRecords,
                          [tokenMint |-> slot.body.tokenMint, amount |-> "0",
                           status |-> "pending"], burnId, now)
                   ELSE burnRecords
              /\ activityLogs' = createActivityLog(activityLogs,
                   [type |-> "thought", action |-> "agent_cycle",
                    metadata |-> [decision |-> [action |-> insight.action],
                                  treasuryBalance |-> slot.body.treasuryBalance],
                    status |-> "success"], logId, now)
              /\ reqs' = [reqs EXCEPT ![r] =
                   Respond([slot EXCEPT !.logId = logId],
                           [status |-> 200, recommendation |-> insight.action])]
  /\ UNCHANGED <<wallets, tokens, treasuryState, holderSnapshots, airdrops,
                 creatorRewards, buybackRecords, now>>

\* getCommunityInsight has answered: the cycle is logged and reported
RunCycleInsightReturn(r, insight) ==
  /\ reqs[r].kind = "cycle" /\ reqs[r].pc = "insight"
  /\ LET slot == reqs[r]
         logId == randomUUID
     IN  IF insight.threw
         THEN /\ reqs' = [reqs EXCEPT ![r] = HandlerThrew(slot)]
              /\ UNCHANGED activityLogs
         ELSE /\ activityLogs' = createActivityLog(activityLogs,
                   [type |-> "thought", action |-> "agent_cycle",
                    metadata |-> [decision |-> [action |-> insight.action],
                                  treasuryBalance |-> slot.body.treasuryBalance],
                    status |-> "success"], logId, now)
              /\ reqs' = [reqs EXCEPT ![r] =
                   Respond([slot EXCEPT !.logId = logId],
                           [status |-> 200, recommendation |-> insight.action])]
  /\ UNCHANGED <<wallets, tokens, treasuryState, holderSnapshots, burnRecords, airdrops,
                 creatorRewards, buybackRecords, now>>

\* the cycle next to the endpoints it reads after: wallet generation, deploy, burn
AgentNext ==
  \/ \E r \in Requests : RunCycleRequest(r)
  \/ \E r \in Requests : RunCycleMentionsReturn(r)
  \/ \E r \in Requests : RunCycleMarketDataReturn(r)
  \/ \E r \in Requests, solBalance \in SolBalances : RunCycleSolBalanceReturn(r, solBalance)
  \/ \E r \in Requests, insight \in Insights : RunCycleInsightReturn(r, insight)
  \/ \E r \in Requests, body \in WalletBodies : WalletGenerateRequest(r, body)
  \/ \E r \in Requests, body \in DeployBodies : DeployRequest(r, body)
  \/ \E r \in Requests, ok \in BOOLEAN : DeployReturn(r, ok)
  \/ \E r \in Requests, body \in BurnBodies : BurnRequest(r, body)
  \/ \E r \in Requests, ok \in BOOLEAN : BurnReturn(r, ok)
  \/ Tick

SpecAgent == Init /\ [][AgentNext]_vars

\* a step of the run-cycle request r
CycleStep(r) == reqs'[r].kind = "cycle" /\ reqs'[r] # reqs[r]

\* the step of r has added exactly one entry to the activity log, a thought
OneThoughtLogged(r) ==
  /\ Len(activityLogs') = Len(activityLogs) + 1
  /\ SubSeq(activityLogs', 1, Len(activityLogs)) = activityLogs
  /\ LET log == activityLogs'[Len(activityLogs')]
     IN  /\ log.k = reqs'[r].logId
         /\ log.v.type = "thought"
         /\ log.v.status = "success"

\* the step of r has written nothing but the activity log, and awaits no signed call
CycleOnlyAdvises(r) ==
  /\ UNCHANGED <<burnRecords, buybackRecords, creatorRewards, airdrops>>
  /\ UNCHANGED <<treasuryState, tokens, wallets, holderSnapshots>>
  /\ reqs'[r].pc \in CycleCalls \cup {"done"}
  /\ ~SignedCallInFlight(r)'

(***************************************************************************)
(* C34 as stated: every run-cycle request creates no burn, buyback, reward *)
(* or airdrop record, awaits no state-changing gateway call, leaves the    *)
(* treasury state unchanged, and has added exactly one activity log entry  *)
(* (type `thought`, status `success`) when it ends.                        *)
(***************************************************************************)
C34_CycleLogsOnce ==
  [][\A r \in Requests : CycleStep(r) =>
       /\ CycleOnlyAdvises(r)
       /\ IF reqs'[r].pc = "done" THEN OneThoughtLogged(r)
          ELSE activityLogs' = activityLogs]_vars

(***************************************************************************)
(* C34, amended: no step of a run-cycle request creates a burn, buyback,   *)
(* reward or airdrop record, awaits a state-changing gateway call or       *)
(* changes the treasury state, whatever the recommendation; the request    *)
(* adds exactly one activity log entry (type `thought`, status `success`)  *)
(* with the step that answers 200, and none when it is answered 400 (no    *)
(* treasury wallet) or 500 (the advisory call threw).                      *)
(***************************************************************************)
C34_CycleOnlyAdvises ==
  [][\A r \in Requests : CycleStep(r) =>
       /\ CycleOnlyAdvises(r)
       /\ IF reqs'[r].pc = "done" /\ reqs'[r].resp.status = 200
          THEN OneThoughtLogged(r)
          ELSE activityLogs' = activityLogs]_vars

\* a cycle that was told to burn has ended with its thought logged, and the only
\* burn record is the one of the burn request next to it
C34_Witness ==
  /\ reqs[2].kind = "cycle" /\ Ended(2, 200)
  /\ LogOf(2).type = "thought" /\ LogOf(2).metadata.decision.action = "burn"
  /\ reqs[1].kind = "burn" /\ Ended(1, 200)
  /\ Len(burnRecords) = 1 /\ burnRecords[1].k = reqs[1].recId
  /\ Cardinality({i \in 1..Len(activityLogs) : activityLogs[i].v.type = "thought"}) = 1

(***************************************************************************)
(* The record store called with every shape of `updates` its signatures    *)
(* accept.  The update methods take Partial<T>, so `updates` may name any  *)
(* field of the record, `id` and `createdAt` included; updateTreasuryState *)
(* takes Partial<TreasuryState>.                                           *)
(***************************************************************************)
\* Partial<T> values: a status; an id no record has with a cleared creation time
PartialUpdates == {[status |-> "failed"], [id |-> 0, createdAt |-> 0]}

\* Partial<TreasuryState> values
TreasuryUpdates ==
  {[solBalance |-> "5"], [tokenBalance |-> "5", tokenMint |-> "M1"], [id |-> 0],
   [lastUpdated |-> 0]}

\* every table but the named one, the clock and the requests are left alone
KeptExcept(name) ==
  /\ name # "wallets" => wallets' = wallets
  /\ name # "tokens" => tokens' = tokens
  /\ name # "treasuryState" => treasuryState' = treasuryState
  /\ name # "holderSnapshots" => holderSnapshots' = holderSnapshots
  /\ name # "activityLogs" => activityLogs' = activityLogs
  /\ name # "airdrops" => airdrops' = airdrops
  /\ name # "creatorRewards" => creatorRewards' = creatorRewards
  /\ name # "burnRecords" => burnRecords' = burnRecords
  /\ name # "buybackRecords" => buybackRecords' = buybackRecords
  /\ UNCHANGED <<now, reqs>>

StoreCreateToken ==
  /\ RecordCount < MaxStoreCalls
  /\ tokens' = createToken(tokens,
       [mint |-> "M1", name |-> "Grok", symbol |-> "GRK", creatorWallet |-> "T",
        deployTxSignature |-> None, status |-> "active"], randomUUID, now)
  /\ KeptExcept("tokens")

StorePatchToken(id, updates) ==
  KeptExcept("tokens") /\ tokens' = updateToken(tokens, id, updates)

StorePatchActivityLog(id, updates) ==
  KeptExcept("activityLogs") /\ activityLogs' = updateActivityLog(activityLogs, id, updates)

StorePatchAirdrop(id, updates) ==
  KeptExcept("airdrops") /\ airdrops' = updateAirdrop(airdrops, id, updates)

StorePatchCreatorReward(id, updates) ==
  /\ KeptExcept("creatorRewards")
  /\ creatorRewards' = updateCreatorReward(creatorRewards, id, updates)

StorePatchBurnRecord(id, updates) ==
  KeptExcept("burnRecords") /\ burnRecords' = updateBurnRecord(burnRecords, id, updates)

StorePatchBuybackRecord(id, updates) ==
  /\ KeptExcept("buybackRecords")
  /\ buybackRecords' = updateBuybackRecord(buybackRecords, id, updates)

StoreUpdateTreasuryState(updates) ==
  /\ treasuryState' = updateTreasuryState(treasuryState, updates, randomUUID, now)
  /\ KeptExcept("treasuryState")

StoreCreates ==
  \/ StoreCreateToken
  \/ StoreCreateActivityLog("burn")
  \/ StoreCreateAirdrop
  \/ StoreCreateCreatorReward("M1")
  \/ StoreCreateBurnRecord("M1")
  \/ StoreCreateBuybackRecord("M1")

StorePatches ==
  \/ \E id \in StoreIds, updates \in PartialUpdates : StorePatchToken(id, updates)
  \/ \E id \in StoreIds, updates \in PartialUpdates : StorePatchActivityLog(id, updates)
  \/ \E id \in StoreIds, updates \in PartialUpdates : StorePatchAirdrop(id, updates)
  \/ \E id \in StoreIds, updates \in PartialUpdates : StorePatchCreatorReward(id, updates)
  \/ \E id \in StoreIds, updates \in PartialUpdates : StorePatchBurnRecord(id, updates)
  \/ \E id \in StoreIds, updates \in PartialUpdates : StorePatchBuybackRecord(id, updates)

PatchNext == StoreCreates \/ StorePatches

SpecPatch == Fresh /\ [][PatchNext]_vars

\* the treasury state next to the creates it shares randomUUID with, under the clock
TreasuryStateNext ==
  \/ StoreCreates
  \/ \E updates \in TreasuryUpdates : StoreUpdateTreasuryState(updates)
  \/ Tick

SpecTreasuryState == Fresh /\ [][TreasuryStateNext]_vars

\* the tables the update methods work on
PatchedTables ==
  <<tokens, activityLogs, airdrops, creatorRewards, burnRecords, buybackRecords>>

(***************************************************************************)
(* C35: every record held under key k in a table has id equal to k, and no *)
(* create or update call changes the createdAt a stored record was given   *)
(* when it was created.                                                    *)
(***************************************************************************)
C35_StoreKeyIntegrity ==
  /\ [](\A t \in 1..Len(PatchedTables) : \A i \in 1..Len(PatchedTables[t]) :
          PatchedTables[t][i].v.id = PatchedTables[t][i].k)
  /\ [][\A t \in 1..Len(PatchedTables) : \A i \in 1..Len(PatchedTables[t]) :
          PatchedTables'[t][i].v.createdAt = PatchedTables[t][i].v.createdAt]_vars

\* what an update method returns: undefined, or the record it has stored
updateResult(m, id, updates) ==
  IF ~MapHas(m, id) THEN <<>> ELSE <<Spread(MapGet(m, id), updates)>>

\* the keys of a table in insertion order
KeyOrder(m) == [i \in 1..Len(m) |-> m[i].k]

\* table m2 is table m after update(id, updates) touched nothing but its record
PatchedLocally(m, m2, id, updates) ==
  IF ~MapHas(m, id)
  THEN m2 = m /\ updateResult(m, id, updates) = <<>>
  ELSE /\ KeyOrder(m2) = KeyOrder(m)
       /\ \A i \in 1..Len(m) : m[i].k # id => m2[i] = m[i]
       /\ LET old == MapGet(m, id)
              new == MapGet(m2, id)
          IN  /\ DOMAIN new = DOMAIN old \cup DOMAIN updates
              /\ \A f \in DOMAIN new :
                   new[f] = IF f \in DOMAIN updates THEN updates[f] ELSE old[f]
              /\ updateResult(m, id, updates) = <<new>>

\* every key held in some table
StoredKeys ==
  UNION {MapKeys(wallets), MapKeys(tokens), MapKeys(holderSnapshots),
         MapKeys(activityLogs), MapKeys(airdrops), MapKeys(creatorRewards),
         MapKeys(burnRecords), MapKeys(buybackRecords)}

\* table m2 is table m with one record more, under a key nothing was held under
CreatedOne(m, m2) ==
  /\ Len(m2) = Len(m) + 1
  /\ SubSeq(m2, 1, Len(m)) = m
  /\ m2[Len(m2)].k \notin StoredKeys
  /\ m2[Len(m2)].v.id = m2[Len(m2)].k
  /\ m2[Len(m2)].v.createdAt = now

\* a step that is an update call has touched its record only, and a step that is
\* a create call has added one record under a fresh id
CallsAreLocal ==
  /\ \A id \in StoreIds, u \in PartialUpdates :
       /\ StorePatchToken(id, u) =>
            PatchedLocally(tokens, tokens', id, u) /\ KeptExcept("tokens")
       /\ StorePatchActivityLog(id, u) =>
            PatchedLocally(activityLogs, activityLogs', id, u)
              /\ KeptExcept("activityLogs")
       /\ StorePatchAirdrop(id, u) =>
            PatchedLocally(airdrops, airdrops', id, u) /\ KeptExcept("airdrops")
       /\ StorePatchCreatorReward(id, u) =>
            PatchedLocally(creatorRewards, creatorRewards', id, u)
              /\ KeptExcept("creatorRewards")
       /\ StorePatchBurnRecord(id, u) =>
            PatchedLocally(burnRecords, burnRecords', id, u)
              /\ KeptExcept("burnRecords")
       /\ StorePatchBuybackRecord(id, u) =>
            PatchedLocally(buybackRecords, buybackRecords', id, u)
              /\ KeptExcept("buybackRecords")
  /\ StoreCreateToken => CreatedOne(tokens, tokens') /\ KeptExcept("tokens")
  /\ StoreCreateActivityLog("burn") =>
       CreatedOne(activityLogs, activityLogs') /\ KeptExcept("activityLogs")
  /\ StoreCreateAirdrop => CreatedOne(airdrops, airdrops') /\ KeptExcept("airdrops")
  /\ StoreCreateCreatorReward("M1") =>
       CreatedOne(creatorRewards, creatorRewards') /\ KeptExcept("creatorRewards")
  /\ StoreCreateBurnRecord("M1") =>
       CreatedOne(burnRecords, burnRecords') /\ KeptExcept("burnRecords")
  /\ StoreCreateBuybackRecord("M1") =>
       CreatedOne(buybackRecords, buybackRecords') /\ KeptExcept("buybackRecords")

(***************************************************************************)
(* C36: an update call with an id that is not stored returns undefined and *)
(* changes nothing; with a stored id it changes only the fields named in   *)
(* `updates` of that one record and leaves every other record and every    *)
(* other table unchanged; a create call adds exactly one record under a    *)
(* fresh id and overwrites none.  (A call that changes nothing is a        *)
(* stuttering step, which the box admits in any case.)                     *)
(***************************************************************************)
C36_UpdateIsLocal == [][vars' # vars => CallsAreLocal]_vars

\* of two stored rewards the first was updated, id included, and the second is as
\* it was created
C36_Witness ==
  /\ Len(creatorRewards) = 2
  /\ creatorRewards[1].v.status = "failed" /\ creatorRewards[1].v.id = 0
  /\ creatorRewards[2].v.status = "pending"
  /\ creatorRewards[2].v.id = creatorRewards[2].k
  /\ creatorRewards[2].v.createdAt = now

\* the row updateTreasuryState makes on first use, before `updates` is applied
ZeroBalances == [solBalance |-> "0", tokenBalance |-> "0", tokenMint |-> None]

\* the step is updateTreasuryState(u) and has kept what the singleton promises
TreasuryStateKept(u) ==
  LET new == treasuryState'[1]
  IN  /\ Len(treasuryState') = 1
      /\ new.lastUpdated = now
      /\ IF treasuryState = <<>>
         THEN /\ new.id \notin StoredKeys
              /\ \A f \in DOMAIN ZeroBalances \ DOMAIN u : new[f] = ZeroBalances[f]
         ELSE LET old == treasuryState[1]
              IN  /\ new.id = old.id
                  /\ new.lastUpdated >= old.lastUpdated
                  /\ \A f \in DOMAIN old \ (DOMAIN u \cup {"lastUpdated"}) :
                       new[f] = old[f]
      /\ \A f \in DOMAIN u \ {"lastUpdated"} : new[f] = u[f]

(***************************************************************************)
(* C37: at most one treasury state exists; updateTreasuryState makes it    *)
(* with zero balances on first use, and every later call keeps its id,     *)
(* changes only the fields supplied and lastUpdated, and never moves       *)
(* lastUpdated back.                                                       *)
(***************************************************************************)
C37_TreasurySingleton ==
  /\ [](Len(treasuryState) <= 1)
  /\ [][\A u \in TreasuryUpdates :
          StoreUpdateTreasuryState(u) => TreasuryStateKept(u)]_vars

=============================================================================
